---- MODULE Spec2Model ----
(***************************************************************************)
(* Model of lib_mgmt.py: the fixed-width binary record stores (members.dat,*)
(* books.dat, loans.dat) and the loan handlers built on them.              *)
(*                                                                         *)
(* A Python str is a sequence of code points, a bytes object a sequence of *)
(* integers 0..255, a file the sequence of its bytes.  A dict is a record  *)
(* holding every key the handlers set.                                     *)
(***************************************************************************)
EXTENDS Integers, Sequences, FiniteSets, TLC

VARIABLES
    members,    \* bytes of members.dat
    books,      \* bytes of books.dat
    loans,      \* bytes of loans.dat
    now,        \* the clock, int(time.time())
    op,         \* the last call: its name and arguments
    err,        \* how the last call ended: "ok" or the exception / message
    cin,        \* codec harness: the dict handed to pack
    cbuf,       \* codec harness: the bytes pack returned
    cout,       \* codec harness: the dict unpack returned
    proc        \* concurrent processes: where each is in its handler, and its locals

vars == <<members, books, loans, now, op, err, cin, cbuf, cout, proc>>

(***************************************************************************)
(* Python values                                                           *)
(***************************************************************************)
\* Python's None, as an integer no field of any record can hold.
None == -999999

Zeros(n) == [i \in 1..n |-> 0]

(***************************************************************************)
(* str.encode("utf-8") and bytes.decode("utf-8", "ignore")                 *)
(***************************************************************************)
EncodeChar(cp) ==
    IF cp < 128 THEN <<cp>>
    ELSE IF cp < 2048 THEN <<192 + (cp \div 64), 128 + (cp % 64)>>
    ELSE IF cp < 65536
         THEN <<224 + (cp \div 4096), 128 + ((cp \div 64) % 64), 128 + (cp % 64)>>
    ELSE <<240 + (cp \div 262144), 128 + ((cp \div 4096) % 64),
           128 + ((cp \div 64) % 64), 128 + (cp % 64)>>

RECURSIVE encode_utf8(_)
encode_utf8(s) ==
    IF s = <<>> THEN <<>> ELSE EncodeChar(Head(s)) \o encode_utf8(Tail(s))

IsCont(b) == b >= 128 /\ b <= 191

\* The second byte a three- or four-byte lead admits (no overlong form, no
\* surrogate, nothing above U+10FFFF).
SecondOK(lead, b) ==
    CASE lead = 224 -> b >= 160 /\ b <= 191
      [] lead = 237 -> b >= 128 /\ b <= 159
      [] lead = 240 -> b >= 144 /\ b <= 191
      [] lead = 244 -> b >= 128 /\ b <= 143
      [] OTHER -> IsCont(b)

\* errors="ignore": a byte that starts no valid sequence is dropped and
\* decoding resumes at the next byte.
RECURSIVE decode_utf8_ignore(_)
decode_utf8_ignore(b) ==
    IF b = <<>> THEN <<>>
    ELSE LET n == Len(b)
             b1 == b[1]
         IN  IF b1 < 128 THEN <<b1>> \o decode_utf8_ignore(Tail(b))
             ELSE IF b1 >= 194 /\ b1 <= 223 /\ n >= 2 /\ IsCont(b[2])
                  THEN <<(b1 - 192) * 64 + (b[2] - 128)>>
                       \o decode_utf8_ignore(SubSeq(b, 3, n))
             ELSE IF b1 >= 224 /\ b1 <= 239 /\ n >= 3 /\ SecondOK(b1, b[2])
                     /\ IsCont(b[3])
                  THEN <<(b1 - 224) * 4096 + (b[2] - 128) * 64 + (b[3] - 128)>>
                       \o decode_utf8_ignore(SubSeq(b, 4, n))
             ELSE IF b1 >= 240 /\ b1 <= 244 /\ n >= 4 /\ SecondOK(b1, b[2])
                     /\ IsCont(b[3]) /\ IsCont(b[4])
                  THEN <<(b1 - 240) * 262144 + (b[2] - 128) * 4096
                         + (b[3] - 128) * 64 + (b[4] - 128)>>
                       \o decode_utf8_ignore(SubSeq(b, 5, n))
             ELSE decode_utf8_ignore(Tail(b))

(***************************************************************************)
(* Helpers: fixed-size string                                              *)
(***************************************************************************)
\* Variant: the field holds the first size characters, not the first size bytes.
pack_str_chars(s, size) ==
    LET b == encode_utf8(SubSeq(s, 1, IF Len(s) < size THEN Len(s) ELSE size))
    IN  b \o Zeros(IF Len(b) < size THEN size - Len(b) ELSE 0)

pack_str(s, size) ==
    LET b == encode_utf8(s)
        t == IF Len(b) > size THEN SubSeq(b, 1, size) ELSE b
    IN  t \o Zeros(size - Len(t))

\* b.split(b"\x00", 1)[0]
RECURSIVE NulAt(_, _)
NulAt(b, i) == IF i > Len(b) \/ b[i] = 0 THEN i ELSE NulAt(b, i + 1)

UpToNul(b) == SubSeq(b, 1, NulAt(b, 1) - 1)

unpack_str(b) == decode_utf8_ignore(UpToNul(b))

(***************************************************************************)
(* struct: little-endian unsigned integers                                 *)
(***************************************************************************)
RECURSIVE LEBytes(_, _)
LEBytes(v, n) == IF n = 0 THEN <<>> ELSE <<v % 256>> \o LEBytes(v \div 256, n - 1)

RECURSIVE LEValue(_)
LEValue(b) == IF b = <<>> THEN 0 ELSE b[1] + 256 * LEValue(Tail(b))

\* struct.pack raises struct.error for a "Q" argument outside 0 .. 2^64-1.  The
\* model's integers stay below 2^31, so the values out of range are the negative ones.
InRangeQ(v) == v >= 0

(***************************************************************************)
(* What a call returns: pack gives bytes or raises; a store method leaves  *)
(* a file and ends "ok" or with the exception it raised; get_by_id gives   *)
(* (rec, idx) or None.                                                     *)
(***************************************************************************)
Packed(b) == [err |-> "ok", bytes |-> b]
Raised(e) == [err |-> e, bytes |-> <<>>]

Done(f) == [file |-> f, err |-> "ok"]
Failed(f, e) == [file |-> f, err |-> e]

\* Variant: the index counted from 1.
Found_one_based(r, i) == [found |-> TRUE, rec |-> r, idx |-> i + 1]

Found(r, i) == [found |-> TRUE, rec |-> r, idx |-> i]
NotFound == [found |-> FALSE, rec |-> <<>>, idx |-> -1]

\* The complete records of a file: f.read(size) until a chunk is empty or short.
NumRecords(f, size) == Len(f) \div size
Chunk(f, size, i) == SubSeq(f, i * size + 1, (i + 1) * size)

\* Variant: the file opened "wb": what lay behind the write is lost.
WriteAt_truncating(f, off, b) ==
    LET g == IF Len(f) < off THEN f \o Zeros(off - Len(f)) ELSE f
    IN  SubSeq(g, 1, off) \o b

\* f.seek(off); f.write(b) on a file opened "r+b": a seek past the end leaves a
\* gap that reads as zero bytes.
WriteAt(f, off, b) ==
    LET g == IF Len(f) < off THEN f \o Zeros(off - Len(f)) ELSE f
    IN  SubSeq(g, 1, off) \o b \o SubSeq(g, off + Len(b) + 1, Len(g))

(***************************************************************************)
(* Members (184B)  <12s32s32s64s16s16sBBHQ                                 *)
(***************************************************************************)
MEM_SIZE == 184

MemberStore_pack(d) ==
    IF d.year = None THEN Raised("TypeError")
    ELSE IF ~InRangeQ(d.created_at) THEN Raised("struct.error")
    ELSE Packed(pack_str(d.member_id, 12)
                \o pack_str(d.first_name, 32)
                \o pack_str(d.last_name, 32)
                \o pack_str(d.email, 64)
                \o pack_str(d.phone, 16)
                \o pack_str(d.major, 16)
                \o <<d.year % 256>>
                \o <<IF d.active THEN 1 ELSE 0>>
                \o LEBytes(0, 2)
                \o LEBytes(d.created_at, 8))

MemberStore_unpack(b) ==
    [member_id  |-> unpack_str(SubSeq(b, 1, 12)),
     first_name |-> unpack_str(SubSeq(b, 13, 44)),
     last_name  |-> unpack_str(SubSeq(b, 45, 76)),
     email      |-> unpack_str(SubSeq(b, 77, 140)),
     phone      |-> unpack_str(SubSeq(b, 141, 156)),
     major      |-> unpack_str(SubSeq(b, 157, 172)),
     year       |-> b[173],
     active     |-> b[174] # 0,
     created_at |-> LEValue(SubSeq(b, 177, 184))]

MemberStore_iter_all(f) ==
    [i \in 1..NumRecords(f, MEM_SIZE) |-> MemberStore_unpack(Chunk(f, MEM_SIZE, i - 1))]

RECURSIVE MemberStore_scan(_, _, _)
MemberStore_scan(f, member_id, idx) ==
    IF idx >= NumRecords(f, MEM_SIZE) THEN NotFound
    ELSE LET rec == MemberStore_unpack(Chunk(f, MEM_SIZE, idx))
         IN  IF rec.member_id = member_id THEN Found(rec, idx)
             ELSE MemberStore_scan(f, member_id, idx + 1)

MemberStore_get_by_id(f, member_id) == MemberStore_scan(f, member_id, 0)

\* Variant: append without the unique member_id check.
MemberStore_append_unchecked(f, d) ==
    LET p == MemberStore_pack(d)
    IN  IF p.err # "ok" THEN Failed(f, p.err) ELSE Done(f \o p.bytes)

MemberStore_append(f, d) ==
    IF MemberStore_get_by_id(f, d.member_id).found THEN Failed(f, "DuplicateKey")
    ELSE LET p == MemberStore_pack(d)
         IN  IF p.err # "ok" THEN Failed(f, p.err) ELSE Done(f \o p.bytes)

MemberStore_update_at(f, index, d) ==
    LET p == MemberStore_pack(d)
    IN  IF p.err # "ok" THEN Failed(f, p.err)
        ELSE Done(WriteAt(f, index * MEM_SIZE, p.bytes))

\* Variant: the record is written back at index 0, not at the index found.
MemberStore_soft_delete_first(f, member_id) ==
    LET res == MemberStore_get_by_id(f, member_id)
    IN  IF ~res.found THEN Failed(f, "NotFound")
        ELSE MemberStore_update_at(f, 0, [res.rec EXCEPT !.active = FALSE])

MemberStore_soft_delete(f, member_id) ==
    LET res == MemberStore_get_by_id(f, member_id)
    IN  IF ~res.found THEN Failed(f, "NotFound")
        ELSE MemberStore_update_at(f, res.idx, [res.rec EXCEPT !.active = FALSE])

(***************************************************************************)
(* Books (158B)  <12s64s32s16sH20sHHQ                                      *)
(***************************************************************************)
BOOK_SIZE == 158

BookStore_pack(d) ==
    IF d.year = None THEN Raised("TypeError")
    ELSE IF ~InRangeQ(d.created_at) THEN Raised("struct.error")
    ELSE Packed(pack_str(d.book_id, 12)
                \o pack_str(d.title, 64)
                \o pack_str(d.author, 32)
                \o pack_str(d.category, 16)
                \o LEBytes(d.year % 65536, 2)
                \o pack_str(d.isbn, 20)
                \o LEBytes(d.total_copies % 65536, 2)
                \o LEBytes(d.available_copies % 65536, 2)
                \o LEBytes(d.created_at, 8))

BookStore_unpack(b) ==
    LET year == LEValue(SubSeq(b, 125, 126))
    IN  [book_id          |-> unpack_str(SubSeq(b, 1, 12)),
         title            |-> unpack_str(SubSeq(b, 13, 76)),
         author           |-> unpack_str(SubSeq(b, 77, 108)),
         category         |-> unpack_str(SubSeq(b, 109, 124)),
         year             |-> IF year # 0 THEN year ELSE None,
         isbn             |-> unpack_str(SubSeq(b, 127, 146)),
         total_copies     |-> LEValue(SubSeq(b, 147, 148)),
         available_copies |-> LEValue(SubSeq(b, 149, 150)),
         created_at       |-> LEValue(SubSeq(b, 151, 158))]

BookStore_iter_all(f) ==
    [i \in 1..NumRecords(f, BOOK_SIZE) |-> BookStore_unpack(Chunk(f, BOOK_SIZE, i - 1))]

RECURSIVE BookStore_scan(_, _, _)
BookStore_scan(f, book_id, idx) ==
    IF idx >= NumRecords(f, BOOK_SIZE) THEN NotFound
    ELSE LET rec == BookStore_unpack(Chunk(f, BOOK_SIZE, idx))
         IN  IF rec.book_id = book_id THEN Found(rec, idx)
             ELSE BookStore_scan(f, book_id, idx + 1)

BookStore_get_by_id(f, book_id) == BookStore_scan(f, book_id, 0)

BookStore_append(f, d) ==
    IF BookStore_get_by_id(f, d.book_id).found THEN Failed(f, "DuplicateKey")
    ELSE LET p == BookStore_pack(d)
         IN  IF p.err # "ok" THEN Failed(f, p.err) ELSE Done(f \o p.bytes)

BookStore_update_at(f, index, d) ==
    LET p == BookStore_pack(d)
    IN  IF p.err # "ok" THEN Failed(f, p.err)
        ELSE Done(WriteAt(f, index * BOOK_SIZE, p.bytes))

\* for r in records: f.write(self.pack(r)) on the file just truncated by open(path, "wb"):
\* a pack that raises leaves the records written before it.
RECURSIVE BookStore_write_all(_, _)
BookStore_write_all(out, records) ==
    IF records = <<>> THEN Done(out)
    ELSE LET p == BookStore_pack(Head(records))
         IN  IF p.err # "ok" THEN Failed(out, p.err)
             ELSE BookStore_write_all(out \o p.bytes, Tail(records))

BookStore_delete_hard(f, book_id) ==
    LET records == SelectSeq(BookStore_iter_all(f), LAMBDA r : r.book_id # book_id)
    IN  BookStore_write_all(<<>>, records)

(***************************************************************************)
(* Loans (64B)  <12s12s12sQQQB3x     status: 0=borrowed, 1=returned, 2=late  *)
(***************************************************************************)
LOAN_SIZE == 64

LoanStore_pack(d) ==
    IF ~(InRangeQ(d.loan_date) /\ InRangeQ(d.due_date) /\ InRangeQ(d.return_date))
    THEN Raised("struct.error")
    ELSE Packed(pack_str(d.loan_id, 12)
                \o pack_str(d.member_id, 12)
                \o pack_str(d.book_id, 12)
                \o LEBytes(d.loan_date, 8)
                \o LEBytes(d.due_date, 8)
                \o LEBytes(d.return_date, 8)
                \o <<d.status % 256>>
                \o Zeros(3))

LoanStore_unpack(b) ==
    [loan_id     |-> unpack_str(SubSeq(b, 1, 12)),
     member_id   |-> unpack_str(SubSeq(b, 13, 24)),
     book_id     |-> unpack_str(SubSeq(b, 25, 36)),
     loan_date   |-> LEValue(SubSeq(b, 37, 44)),
     due_date    |-> LEValue(SubSeq(b, 45, 52)),
     return_date |-> LEValue(SubSeq(b, 53, 60)),
     status      |-> b[61]]

LoanStore_append(f, d) ==
    LET p == LoanStore_pack(d)
    IN  IF p.err # "ok" THEN Failed(f, p.err) ELSE Done(f \o p.bytes)

LoanStore_iter_all(f) ==
    [i \in 1..NumRecords(f, LOAN_SIZE) |-> LoanStore_unpack(Chunk(f, LOAN_SIZE, i - 1))]

RECURSIVE LoanStore_scan(_, _, _)
LoanStore_scan(f, loan_id, idx) ==
    IF idx >= NumRecords(f, LOAN_SIZE) THEN NotFound
    ELSE LET rec == LoanStore_unpack(Chunk(f, LOAN_SIZE, idx))
         IN  IF rec.loan_id = loan_id THEN Found(rec, idx)
             ELSE LoanStore_scan(f, loan_id, idx + 1)

LoanStore_get_by_id(f, loan_id) == LoanStore_scan(f, loan_id, 0)

LoanStore_update_at(f, index, d) ==
    LET p == LoanStore_pack(d)
    IN  IF p.err # "ok" THEN Failed(f, p.err)
        ELSE Done(WriteAt(f, index * LOAN_SIZE, p.bytes))

(***************************************************************************)
(* Bounds and inputs                                                       *)
(***************************************************************************)
\* The three files together hold at most MaxRecs records.
MaxRecs == 2

Str_A == <<65>>
Str_M1 == <<77, 49>>
Str_M2 == <<77, 50>>
Str_B1 == <<66, 49>>
Str_B2 == <<66, 50>>
Str_B3 == <<66, 51>>
Str_L1 == <<76, 49>>
Str_L2 == <<76, 50>>
\* "ABCDEFGHIJKLM": 13 bytes, one more than the id field; and its first 12.
Str_Long13 == <<65, 66, 67, 68, 69, 70, 71, 72, 73, 74, 75, 76, 77>>
Str_Long12 == SubSeq(Str_Long13, 1, 12)

Member(id, first, active) ==
    [member_id |-> id, first_name |-> first, last_name |-> <<>>, email |-> <<>>,
     phone |-> <<>>, major |-> <<>>, year |-> 1, active |-> active, created_at |-> 5]

Book(id, year, total, avail) ==
    [book_id |-> id, title |-> Str_A, author |-> <<>>, category |-> <<>>,
     year |-> year, isbn |-> <<>>, total_copies |-> total, available_copies |-> avail,
     created_at |-> 5]

Loan(id, mid, bid, loan_dt, due, ret, status) ==
    [loan_id |-> id, member_id |-> mid, book_id |-> bid, loan_date |-> loan_dt,
     due_date |-> due, return_date |-> ret, status |-> status]

MemberIds == {Str_M1, Str_Long13, Str_Long12}
BookIds == {Str_B1, Str_B2, Str_B3}
LoanIds == {Str_L1, Str_L2}

MemberArgs == {Member(id, Str_A, TRUE) : id \in MemberIds} \cup {Member(Str_M1, Str_A, FALSE)}
BookArgs == {Book(id, 2001, 1, 1) : id \in BookIds} \cup {Book(Str_B1, 0, 1, 1)}
LoanArgs == {Loan(id, Str_M1, Str_B1, 5, 6, 0, 0) : id \in LoanIds}
                \cup {Loan(Str_L1, Str_M1, Str_B1, 5, 6, 6, 1)}

TotalRecords ==
    NumRecords(members, MEM_SIZE) + NumRecords(books, BOOK_SIZE)
        + NumRecords(loans, LOAN_SIZE)

Call(name, key, index, rec) == [name |-> name, key |-> key, index |-> index, rec |-> rec]

(***************************************************************************)
(* The store methods as calls on the three files                           *)
(***************************************************************************)
Init ==
    /\ members = <<>> /\ books = <<>> /\ loans = <<>>
    /\ now = 0
    /\ op = Call("start", <<>>, -1, <<>>)
    /\ err = "ok"
    /\ cin = <<>> /\ cbuf = <<>> /\ cout = <<>>
    /\ proc = <<>>

MemberAppend ==
    \E d \in MemberArgs :
        LET r == MemberStore_append(members, d)
        IN  /\ NumRecords(r.file, MEM_SIZE) - NumRecords(members, MEM_SIZE) + TotalRecords <= MaxRecs
            /\ members' = r.file
            /\ op' = Call("MemberStore.append", d.member_id, -1, d)
            /\ err' = r.err
            /\ UNCHANGED <<books, loans, now, cin, cbuf, cout, proc>>

MemberUpdateAt ==
    \E d \in MemberArgs, index \in 0..(MaxRecs - 1) :
        LET r == MemberStore_update_at(members, index, d)
        IN  /\ NumRecords(r.file, MEM_SIZE) - NumRecords(members, MEM_SIZE) + TotalRecords <= MaxRecs
            /\ members' = r.file
            /\ op' = Call("MemberStore.update_at", d.member_id, index, d)
            /\ err' = r.err
            /\ UNCHANGED <<books, loans, now, cin, cbuf, cout, proc>>

MemberSoftDelete ==
    \E k \in MemberIds \cup {Str_M2} :
        LET r == MemberStore_soft_delete(members, k)
        IN  /\ members' = r.file
            /\ op' = Call("MemberStore.soft_delete", k, -1, <<>>)
            /\ err' = r.err
            /\ UNCHANGED <<books, loans, now, cin, cbuf, cout, proc>>

BookAppend ==
    \E d \in BookArgs :
        LET r == BookStore_append(books, d)
        IN  /\ NumRecords(r.file, BOOK_SIZE) - NumRecords(books, BOOK_SIZE) + TotalRecords <= MaxRecs
            /\ books' = r.file
            /\ op' = Call("BookStore.append", d.book_id, -1, d)
            /\ err' = r.err
            /\ UNCHANGED <<members, loans, now, cin, cbuf, cout, proc>>

BookUpdateAt ==
    \E d \in BookArgs, index \in 0..(MaxRecs - 1) :
        LET r == BookStore_update_at(books, index, d)
        IN  /\ NumRecords(r.file, BOOK_SIZE) - NumRecords(books, BOOK_SIZE) + TotalRecords <= MaxRecs
            /\ books' = r.file
            /\ op' = Call("BookStore.update_at", d.book_id, index, d)
            /\ err' = r.err
            /\ UNCHANGED <<members, loans, now, cin, cbuf, cout, proc>>

BookDeleteHard ==
    \E k \in BookIds :
        LET r == BookStore_delete_hard(books, k)
        IN  /\ books' = r.file
            /\ op' = Call("BookStore.delete_hard", k, -1, <<>>)
            /\ err' = r.err
            /\ UNCHANGED <<members, loans, now, cin, cbuf, cout, proc>>

LoanAppend ==
    \E d \in LoanArgs :
        LET r == LoanStore_append(loans, d)
        IN  /\ NumRecords(r.file, LOAN_SIZE) - NumRecords(loans, LOAN_SIZE) + TotalRecords <= MaxRecs
            /\ loans' = r.file
            /\ op' = Call("LoanStore.append", d.loan_id, -1, d)
            /\ err' = r.err
            /\ UNCHANGED <<members, books, now, cin, cbuf, cout, proc>>

LoanUpdateAt ==
    \E d \in LoanArgs, index \in 0..(MaxRecs - 1) :
        LET r == LoanStore_update_at(loans, index, d)
        IN  /\ NumRecords(r.file, LOAN_SIZE) - NumRecords(loans, LOAN_SIZE) + TotalRecords <= MaxRecs
            /\ loans' = r.file
            /\ op' = Call("LoanStore.update_at", d.loan_id, index, d)
            /\ err' = r.err
            /\ UNCHANGED <<members, books, now, cin, cbuf, cout, proc>>

Next ==
    \/ MemberAppend \/ MemberUpdateAt \/ MemberSoftDelete
    \/ BookAppend \/ BookUpdateAt \/ BookDeleteHard
    \/ LoanAppend \/ LoanUpdateAt

Spec == Init /\ [][Next]_vars

(***************************************************************************)
(* High-level actions: the handlers behind the menus.  input() is an       *)
(* argument; a handler that prints a message and returns ends with that    *)
(* message, one that raises ends with the exception.  The clock counts     *)
(* seconds, and one handler runs within one second.                        *)
(***************************************************************************)
\* The clock starts at Epoch0 and is followed for MaxTick seconds.
Epoch0 == 1700000000
MaxTick == 1
\* loans.dat holds at most MaxLoans records; a book at most MaxCopies copies on the shelf.
MaxLoans == 1
MaxCopies == 2

RECURSIVE Decimal(_)
Decimal(n) == IF n < 10 THEN <<48 + n>> ELSE Decimal(n \div 10) \o <<48 + (n % 10)>>

\* f"LN{int(time.time())}"
LoanIdAt(t) == <<76, 78>> \o Decimal(t)

Outcome(b, l, e) == [books |-> b, loans |-> l, err |-> e]

\* Variant: the member's active flag not looked at.
loan_borrow_any_member(m, b, l, t, mid, bid, days_v) ==
    LET mres == MemberStore_get_by_id(m, mid)
    IN  IF ~mres.found
        THEN [books |-> b, loans |-> l, err |-> "Member not found or inactive"]
        ELSE LET bres == BookStore_get_by_id(b, bid)
             IN  IF ~bres.found THEN [books |-> b, loans |-> l, err |-> "Book not found"]
                 ELSE IF bres.rec.available_copies <= 0
                      THEN [books |-> b, loans |-> l, err |-> "No available copies"]
                 ELSE LET book == [bres.rec EXCEPT !.available_copies = @ - 1]
                          u == BookStore_update_at(b, bres.idx, book)
                      IN  IF u.err # "ok" THEN [books |-> u.file, loans |-> l, err |-> u.err]
                          ELSE LET loan == Loan(<<76, 78>> \o Decimal(t), mid, bid, t,
                                                t + days_v * 86400, 0, 0)
                                   a == LoanStore_append(l, loan)
                               IN  [books |-> u.file, loans |-> a.file, err |-> a.err]

loan_borrow(m, b, l, t, mid, bid, days_v) ==
    LET mres == MemberStore_get_by_id(m, mid)
    IN  IF ~mres.found \/ ~mres.rec.active
        THEN Outcome(b, l, "Member not found or inactive")
        ELSE LET bres == BookStore_get_by_id(b, bid)
             IN  IF ~bres.found THEN Outcome(b, l, "Book not found")
                 ELSE IF bres.rec.available_copies <= 0
                      THEN Outcome(b, l, "No available copies")
                 ELSE LET book == [bres.rec EXCEPT !.available_copies = @ - 1]
                          u == BookStore_update_at(b, bres.idx, book)
                      IN  IF u.err # "ok" THEN Outcome(u.file, l, u.err)
                          ELSE LET loan == Loan(LoanIdAt(t), mid, bid, t,
                                                t + days_v * 86400, 0, 0)
                                   a == LoanStore_append(l, loan)
                               IN  Outcome(u.file, a.file, a.err)

\* Variant: the guard taken for the late loans only.
AlreadyReturned_late_only(rec) == rec.status = 2

\* Variant: loan_return without its guard.
AlreadyReturned_never(rec) == FALSE

\* rec["status"] == 1: the guard of loan_return
AlreadyReturned(rec) == rec.status = 1

\* Variant: a return refused when the loan's book is no longer on file.
loan_return_needs_book(b, l, t, lid) ==
    LET res == LoanStore_get_by_id(l, lid)
    IN  IF ~res.found THEN [books |-> b, loans |-> l, err |-> "Loan not found"]
        ELSE IF res.rec.status = 1 THEN [books |-> b, loans |-> l, err |-> "Already returned"]
        ELSE LET bres == BookStore_get_by_id(b, res.rec.book_id)
             IN  IF ~bres.found THEN [books |-> b, loans |-> l, err |-> "Book not found"]
                 ELSE LET rec == [res.rec EXCEPT !.return_date = t,
                                                 !.status = IF t > res.rec.due_date THEN 2 ELSE 1]
                          u == LoanStore_update_at(l, res.idx, rec)
                      IN  IF u.err # "ok" THEN [books |-> b, loans |-> u.file, err |-> u.err]
                          ELSE LET book == [bres.rec EXCEPT !.available_copies = @ + 1]
                                   w == BookStore_update_at(b, bres.idx, book)
                               IN  [books |-> w.file, loans |-> u.file, err |-> w.err]

\* Variant: the book written back at index 0, not at the index of its lookup.
loan_return_book_first(b, l, t, lid) ==
    LET res == LoanStore_get_by_id(l, lid)
    IN  IF ~res.found THEN [books |-> b, loans |-> l, err |-> "Loan not found"]
        ELSE IF res.rec.status = 1 THEN [books |-> b, loans |-> l, err |-> "Already returned"]
        ELSE LET rec == [res.rec EXCEPT !.return_date = t,
                                        !.status = IF t > res.rec.due_date THEN 2 ELSE 1]
                 u == LoanStore_update_at(l, res.idx, rec)
             IN  IF u.err # "ok" THEN [books |-> b, loans |-> u.file, err |-> u.err]
                 ELSE LET bres == BookStore_get_by_id(b, rec.book_id)
                      IN  IF ~bres.found THEN [books |-> b, loans |-> u.file, err |-> "ok"]
                          ELSE LET book == [bres.rec EXCEPT !.available_copies = @ + 1]
                                   w == BookStore_update_at(b, 0, book)
                               IN  [books |-> w.file, loans |-> u.file, err |-> w.err]

\* 2 if rec["return_date"] > rec["due_date"] else 1
ReturnStatus(return_date, due_date) == IF return_date > due_date THEN 2 ELSE 1

loan_return(b, l, t, lid) ==
    LET res == LoanStore_get_by_id(l, lid)
    IN  IF ~res.found THEN Outcome(b, l, "Loan not found")
        ELSE IF AlreadyReturned(res.rec) THEN Outcome(b, l, "Already returned")
        ELSE LET rec == [res.rec EXCEPT !.return_date = t,
                                        !.status = ReturnStatus(t, res.rec.due_date)]
                 u == LoanStore_update_at(l, res.idx, rec)
             IN  IF u.err # "ok" THEN Outcome(b, u.file, u.err)
                 ELSE LET bres == BookStore_get_by_id(b, rec.book_id)
                      IN  IF ~bres.found THEN Outcome(b, u.file, "ok")
                          ELSE LET book == [bres.rec EXCEPT !.available_copies = @ + 1]
                                   w == BookStore_update_at(b, bres.idx, book)
                               IN  Outcome(w.file, u.file, w.err)

\* The prompts of loan_borrow: member id, book id, days (blank: 14).
BorrowArgs == {<<Str_M1, Str_B1, 0>>, <<Str_M1, Str_B1, 14>>,
               <<Str_M2, Str_B1, 14>>, <<Str_M1, Str_B2, 14>>}
LibLoanIds == {LoanIdAt(t) : t \in Epoch0..(Epoch0 + MaxTick)} \cup {Str_L1}

InitLib ==
    /\ members = <<>> /\ books = <<>> /\ loans = <<>>
    /\ now = Epoch0
    /\ op = Call("start", <<>>, -1, <<>>)
    /\ err = "ok"
    /\ cin = <<>> /\ cbuf = <<>> /\ cout = <<>>
    /\ proc = <<>>

\* member_add: the record is built from the prompts, active and created now.
MemberAdd ==
    LET d == [Member(Str_M1, Str_A, TRUE) EXCEPT !.created_at = now]
        r == MemberStore_append(members, d)
    IN  /\ members' = r.file
        /\ op' = Call("member_add", d.member_id, -1, d)
        /\ err' = r.err
        /\ UNCHANGED <<books, loans, now, cin, cbuf, cout, proc>>

\* member_delete
MemberDelete ==
    LET r == MemberStore_soft_delete(members, Str_M1)
    IN  /\ members' = r.file
        /\ op' = Call("member_delete", Str_M1, -1, <<>>)
        /\ err' = r.err
        /\ UNCHANGED <<books, loans, now, cin, cbuf, cout, proc>>

\* book_add: a blank year is stored as 0; every copy is available.
BookAdd ==
    \E y \in {0, 2001} :
        LET d == [Book(Str_B1, y, 1, 1) EXCEPT !.created_at = now]
            r == BookStore_append(books, d)
        IN  /\ books' = r.file
            /\ op' = Call("book_add", d.book_id, -1, d)
            /\ err' = r.err
            /\ UNCHANGED <<members, loans, now, cin, cbuf, cout, proc>>

\* book_delete
BookDelete ==
    LET r == BookStore_delete_hard(books, Str_B1)
    IN  /\ books' = r.file
        /\ op' = Call("book_delete", Str_B1, -1, <<>>)
        /\ err' = r.err
        /\ UNCHANGED <<members, loans, now, cin, cbuf, cout, proc>>

LoanBorrow ==
    \E a \in BorrowArgs :
        LET r == loan_borrow(members, books, loans, now, a[1], a[2], a[3])
        IN  /\ NumRecords(r.loans, LOAN_SIZE) <= MaxLoans
            /\ books' = r.books
            /\ loans' = r.loans
            /\ op' = Call("loan_borrow", a[1], -1, [book_id |-> a[2], days |-> a[3]])
            /\ err' = r.err
            /\ UNCHANGED <<members, now, cin, cbuf, cout, proc>>

LoanReturn ==
    \E lid \in LibLoanIds :
        LET r == loan_return(books, loans, now, lid)
        IN  /\ \A i \in 1..NumRecords(r.books, BOOK_SIZE) :
                  BookStore_iter_all(r.books)[i].available_copies <= MaxCopies
            /\ books' = r.books
            /\ loans' = r.loans
            /\ op' = Call("loan_return", lid, -1, <<>>)
            /\ err' = r.err
            /\ UNCHANGED <<members, now, cin, cbuf, cout, proc>>

Tick ==
    /\ now < Epoch0 + MaxTick
    /\ now' = now + 1
    /\ op' = Call("tick", <<>>, -1, <<>>)
    /\ err' = "ok"
    /\ UNCHANGED <<members, books, loans, cin, cbuf, cout, proc>>

NextLib ==
    \/ MemberAdd \/ MemberDelete \/ BookAdd \/ BookDelete
    \/ LoanBorrow \/ LoanReturn \/ Tick

SpecLib == InitLib /\ [][NextLib]_vars

(***************************************************************************)
(* Appends only: the files as a sequence of MemberStore.append and         *)
(* BookStore.append calls leaves them.                                     *)
(***************************************************************************)
NextAppend == MemberAppend \/ BookAppend

SpecAppend == Init /\ [][NextAppend]_vars

(***************************************************************************)
(* The codecs alone: a dict is packed, and the bytes are unpacked.         *)
(***************************************************************************)
\* Integers go from 0 and the field's largest value to one past it; -1 stands
\* for the integers no u64 field holds.
\* "éก": one two-byte and one three-byte character
Str_Wide == <<233, 3585>>

CodecMembers ==
    {[Member(id, first, a) EXCEPT !.year = y, !.created_at = c] :
        id \in {Str_M1, Str_Long12, Str_Long13}, first \in {Str_A, Str_Wide},
        a \in BOOLEAN, y \in {0, 255, 256}, c \in {0, Epoch0, -1}}

CodecBooks ==
    {[Book(id, y, t, a) EXCEPT !.title = title] :
        id \in {Str_B1, Str_Long13}, title \in {Str_A, Str_Wide},
        y \in {0, 1, 65535}, t \in {0, 65535, 65536}, a \in {0, 1}}

\* "Aéééééé": 13 bytes, the twelfth the first byte of the last character
Str_Cut13 == <<65, 233, 233, 233, 233, 233, 233>>

CodecLoans ==
    {Loan(id, Str_M1, Str_B1, loan_dt, due, ret, st) :
        id \in {Str_L1, Str_Long13, Str_Cut13}, loan_dt \in {0, Epoch0, -1}, due \in {0, Epoch0},
        ret \in {0, Epoch0}, st \in {0, 1, 2, 255, 256}}

CodecInputs ==
    {[kind |-> "Member", d |-> d] : d \in CodecMembers}
        \cup {[kind |-> "Book", d |-> d] : d \in CodecBooks}
        \cup {[kind |-> "Loan", d |-> d] : d \in CodecLoans}

PackOf(in) ==
    CASE in.kind = "Member" -> MemberStore_pack(in.d)
      [] in.kind = "Book" -> BookStore_pack(in.d)
      [] in.kind = "Loan" -> LoanStore_pack(in.d)

UnpackOf(kind, b) ==
    CASE kind = "Member" -> MemberStore_unpack(b)
      [] kind = "Book" -> BookStore_unpack(b)
      [] kind = "Loan" -> LoanStore_unpack(b)

InitCodec ==
    /\ members = <<>> /\ books = <<>> /\ loans = <<>>
    /\ now = Epoch0
    /\ op = Call("input", <<>>, -1, <<>>)
    /\ err = "ok"
    /\ cin \in CodecInputs
    /\ cbuf = <<>> /\ cout = <<>>
    /\ proc = <<>>

CodecPack ==
    /\ op.name = "input"
    /\ LET p == PackOf(cin)
       IN  cbuf' = p.bytes /\ err' = p.err
    /\ op' = Call("pack", <<>>, -1, <<>>)
    /\ UNCHANGED <<members, books, loans, now, cin, cout, proc>>

CodecUnpack ==
    /\ op.name = "pack" /\ err = "ok"
    /\ cout' = UnpackOf(cin.kind, cbuf)
    /\ op' = Call("unpack", <<>>, -1, <<>>)
    /\ UNCHANGED <<members, books, loans, now, err, cin, cbuf, proc>>

NextCodec == CodecPack \/ CodecUnpack

SpecCodec == InitCodec /\ [][NextCodec]_vars

(***************************************************************************)
(* Properties                                                              *)
(***************************************************************************)
MemberIdsIn(f) ==
    {MemberStore_iter_all(f)[i].member_id : i \in 1..NumRecords(f, MEM_SIZE)}
BookIdsIn(f) ==
    {BookStore_iter_all(f)[i].book_id : i \in 1..NumRecords(f, BOOK_SIZE)}

\* Every complete record but the one at index is the same in f and g.
OthersUnchanged(f, g, size, index) ==
    \A j \in 0..(NumRecords(f, size) - 1) :
        j # index => Chunk(g, size, j) = Chunk(f, size, j)

\* C1: MemberStore.append and BookStore.append of a record whose id is the id of a
\* record already in the file end with the duplicate-key error and leave the file
\* as it was, byte for byte.
C1_DuplicateAppendRejected ==
    [][/\ (op'.name = "MemberStore.append" /\ op'.rec.member_id \in MemberIdsIn(members))
            => (err' = "DuplicateKey" /\ members' = members)
       /\ (op'.name = "BookStore.append" /\ op'.rec.book_id \in BookIdsIn(books))
            => (err' = "DuplicateKey" /\ books' = books)]_vars

\* A second append of an id already stored has been refused.
C1_Witness ==
    /\ op.name = "MemberStore.append" /\ err = "DuplicateKey"
    /\ op.rec.member_id \in MemberIdsIn(members)

\* C2: after any sequence of appends, with ids of any length, no two records of
\* members.dat and no two records of books.dat decode to the same id.
C2_IdsUnique ==
    /\ \A i, j \in 1..NumRecords(members, MEM_SIZE) :
          i # j => MemberStore_iter_all(members)[i].member_id
                      # MemberStore_iter_all(members)[j].member_id
    /\ \A i, j \in 1..NumRecords(books, BOOK_SIZE) :
          i # j => BookStore_iter_all(books)[i].book_id
                      # BookStore_iter_all(books)[j].book_id

FitsStr(s, size) == Len(encode_utf8(s)) <= size

FitsMember(d) ==
    /\ FitsStr(d.member_id, 12) /\ FitsStr(d.first_name, 32) /\ FitsStr(d.last_name, 32)
    /\ FitsStr(d.email, 64) /\ FitsStr(d.phone, 16) /\ FitsStr(d.major, 16)
    /\ d.year \in 0..255 /\ d.created_at >= 0

FitsBook(d) ==
    /\ FitsStr(d.book_id, 12) /\ FitsStr(d.title, 64) /\ FitsStr(d.author, 32)
    /\ FitsStr(d.category, 16) /\ FitsStr(d.isbn, 20)
    /\ d.year \in 0..65535 /\ d.total_copies \in 0..65535
    /\ d.available_copies \in 0..65535 /\ d.created_at >= 0

FitsLoan(d) ==
    /\ FitsStr(d.loan_id, 12) /\ FitsStr(d.member_id, 12) /\ FitsStr(d.book_id, 12)
    /\ d.loan_date >= 0 /\ d.due_date >= 0 /\ d.return_date >= 0
    /\ d.status \in 0..255

Fits(in) ==
    CASE in.kind = "Member" -> FitsMember(in.d)
      [] in.kind = "Book" -> FitsBook(in.d)
      [] in.kind = "Loan" -> FitsLoan(in.d)

\* C3: for each record kind, a record whose strings fit their fields and whose
\* numbers fit their widths (0 included) comes back from unpack(pack(record))
\* equal field by field.
C3_RoundTrip ==
    (op.name = "unpack" /\ Fits(cin)) => cout = cin.d

FirstHolder(before, after, index, s, sid, ids) ==
    LET lower == {j \in 0..(index - 1) : ids[j + 1] = sid}
    IN  /\ after.found
        /\ IF lower = {} THEN after.rec = s /\ after.idx = index
           ELSE /\ after.idx \in lower /\ \A j \in lower : after.idx <= j
                /\ after.rec = before[after.idx + 1]

RECURSIVE BooksWithout(_, _)
BooksWithout(recs, k) ==
    IF recs = <<>> THEN <<>>
    ELSE IF Head(recs).book_id = k THEN BooksWithout(Tail(recs), k)
         ELSE <<Head(recs)>> \o BooksWithout(Tail(recs), k)

BookList(f) == [i \in 1..NumRecords(f, BOOK_SIZE) |-> BookStore_iter_all(f)[i]]

\* C5: delete_hard(k) on a Book file of N records of which exactly one has id k
\* leaves N-1 records, none with id k: the other records, equal to what they
\* were and in their original order.
C5_DeleteHardCompacts ==
    [][(/\ op'.name = "BookStore.delete_hard"
        /\ Cardinality({i \in 1..NumRecords(books, BOOK_SIZE) :
                           BookStore_iter_all(books)[i].book_id = op'.key}) = 1)
          => /\ NumRecords(books', BOOK_SIZE) = NumRecords(books, BOOK_SIZE) - 1
             /\ op'.key \notin BookIdsIn(books')
             /\ BookList(books') = BooksWithout(BookList(books), op'.key)]_vars

\* C6: soft_delete(k) on a Member file holding id k keeps the file's length,
\* changes only the active flag of the first record holding k, which becomes
\* FALSE at the same index, and get_by_id(k) then returns that record.
C6_SoftDeleteInPlace ==
    [][(op'.name = "MemberStore.soft_delete" /\ op'.key \in MemberIdsIn(members))
          => LET was == MemberStore_get_by_id(members, op'.key)
                 is == MemberStore_get_by_id(members', op'.key)
             IN  /\ err' = "ok"
                 /\ Len(members') = Len(members)
                 /\ OthersUnchanged(members, members', MEM_SIZE, was.idx)
                 /\ is.found /\ is.idx = was.idx
                 /\ is.rec = [was.rec EXCEPT !.active = FALSE]
                 /\ MemberStore_iter_all(members')[was.idx + 1] = is.rec]_vars

\* soft_delete has cleared the flag of the second of two records, the first
\* still active.
C6_Witness ==
    /\ op.name = "MemberStore.soft_delete" /\ err = "ok"
    /\ NumRecords(members, MEM_SIZE) = 2
    /\ MemberStore_iter_all(members)[2].member_id = op.key
    /\ ~MemberStore_iter_all(members)[2].active
    /\ MemberStore_iter_all(members)[1].active

\* C7: soft_delete and delete_hard of a key that no record of the file holds end
\* with the not-found error and leave the file as it was.
C7_AbsentKeyNotFound ==
    [][/\ (op'.name = "MemberStore.soft_delete" /\ op'.key \notin MemberIdsIn(members))
            => (err' = "NotFound" /\ members' = members)
       /\ (op'.name = "BookStore.delete_hard" /\ op'.key \notin BookIdsIn(books))
            => (err' = "NotFound" /\ books' = books)]_vars

\* C8: loan_borrow by an active member of a book with a copy available takes
\* one from that book's available_copies and appends one loan of status 0 and
\* return_date 0; with no copy available it changes neither books nor loans.
C8_BorrowTakesOneCopy ==
    [][op'.name = "loan_borrow"
          => LET m == MemberStore_get_by_id(members, op'.key)
                 b == BookStore_get_by_id(books, op'.rec.book_id)
             IN  /\ (m.found /\ m.rec.active /\ b.found /\ b.rec.available_copies >= 1)
                      => /\ BookStore_get_by_id(books', op'.rec.book_id).found
                         /\ BookStore_get_by_id(books', op'.rec.book_id).rec.available_copies
                               = b.rec.available_copies - 1
                         /\ Len(loans') = Len(loans) + LOAN_SIZE
                         /\ SubSeq(loans', 1, Len(loans)) = loans
                         /\ LoanStore_iter_all(loans')[NumRecords(loans', LOAN_SIZE)].status = 0
                         /\ LoanStore_iter_all(loans')[NumRecords(loans', LOAN_SIZE)].return_date = 0
                 /\ (b.found /\ b.rec.available_copies = 0)
                      => (err' # "ok" /\ books' = books /\ loans' = loans)]_vars

\* C9: loan_return of a loan in status 0 sets its return_date to the time of the
\* call and its status to 1 when that time is at or before due_date, to 2 when
\* after, and adds one to the available_copies of the loan's book.
C9_ReturnGivesCopyBack ==
    [][op'.name = "loan_return"
          => LET l == LoanStore_get_by_id(loans, op'.key)
             IN  (l.found /\ l.rec.status = 0)
                   => LET after == LoanStore_iter_all(loans')[l.idx + 1]
                          b == BookStore_get_by_id(books, l.rec.book_id)
                      IN  /\ after.return_date = now
                          /\ after.status = IF now <= l.rec.due_date THEN 1 ELSE 2
                          /\ b.found
                               => BookStore_get_by_id(books', l.rec.book_id).rec.available_copies
                                     = b.rec.available_copies + 1]_vars

\* C10: a loan enters the file in status 0, and a loan whose status is 1 or 2
\* keeps its place and that status through every later borrow and return, the
\* clock never reading earlier than it did.
C10_StatusOneWay ==
    [][/\ \A i \in 1..NumRecords(loans, LOAN_SIZE) :
             LoanStore_iter_all(loans)[i].status \in {1, 2}
               => /\ i <= NumRecords(loans', LOAN_SIZE)
                  /\ LoanStore_iter_all(loans')[i].status = LoanStore_iter_all(loans)[i].status
       /\ \A i \in 1..NumRecords(loans', LOAN_SIZE) :
             i > NumRecords(loans, LOAN_SIZE) => LoanStore_iter_all(loans')[i].status = 0]_vars

\* loan_return has gone through a second time on a loan in status 2: the loan is
\* still in status 2 and its book has more copies available than it has copies.
C10_Witness ==
    /\ op.name = "loan_return" /\ err = "ok"
    /\ LoanStore_get_by_id(loans, op.key).found
    /\ LoanStore_get_by_id(loans, op.key).rec.status = 2
    /\ LET b == BookStore_get_by_id(books, LoanStore_get_by_id(loans, op.key).rec.book_id)
       IN  b.found /\ b.rec.available_copies > b.rec.total_copies

(***************************************************************************)
(* Borrowing and returning only: members and books are added, never        *)
(* edited or deleted, so every book record is as book_add wrote it but for *)
(* what loan_borrow and loan_return did to it.                             *)
(***************************************************************************)
NextCirc == MemberAdd \/ BookAdd \/ LoanBorrow \/ LoanReturn \/ Tick

SpecCirc == InitLib /\ [][NextCirc]_vars

\* C11: from books added with available_copies = total_copies, after any
\* sequence of loan_borrow and loan_return, the same loan returned more than
\* once included, every book has available_copies <= total_copies.
C11_AvailWithinTotal ==
    \A i \in 1..NumRecords(books, BOOK_SIZE) :
        BookStore_iter_all(books)[i].available_copies
            <= BookStore_iter_all(books)[i].total_copies

(***************************************************************************)
(* Reading a members file that ends in a partial record: the file is the   *)
(* records written to it followed by the first bytes of one more, as a     *)
(* write cut short leaves it.                                              *)
(***************************************************************************)
TailRecords ==
    {Member(Str_M1, Str_A, TRUE), Member(Str_M1, Str_A, FALSE),
     Member(Str_Long12, Str_A, TRUE)}

TailWritten == {<<>>} \cup {<<d>> : d \in TailRecords}
                  \cup {<<d, e>> : d, e \in TailRecords}

\* Nothing, one byte, or all but the last byte of a record of id M2.
TailBytes ==
    {<<>>, <<77>>, SubSeq(MemberStore_pack(Member(Str_M2, Str_A, TRUE)).bytes, 1, MEM_SIZE - 1)}

RECURSIVE MemberFile(_)
MemberFile(recs) ==
    IF recs = <<>> THEN <<>>
    ELSE MemberStore_pack(Head(recs)).bytes \o MemberFile(Tail(recs))

InitTail ==
    /\ cin \in {[recs |-> w, tail |-> t] : w \in TailWritten, t \in TailBytes}
    /\ members = MemberFile(cin.recs) \o cin.tail
    /\ books = <<>> /\ loans = <<>>
    /\ now = Epoch0
    /\ op = Call("start", <<>>, -1, <<>>)
    /\ err = "ok"
    /\ cbuf = <<>> /\ cout = <<>>
    /\ proc = <<>>

TailIterAll ==
    /\ cout' = [i \in 1..NumRecords(members, MEM_SIZE) |-> MemberStore_iter_all(members)[i]]
    /\ op' = Call("MemberStore.iter_all", <<>>, -1, <<>>)
    /\ UNCHANGED <<members, books, loans, now, err, cin, cbuf, proc>>

TailGetById ==
    \E k \in {Str_M1, Str_M2, Str_Long12} :
        /\ cout' = MemberStore_get_by_id(members, k)
        /\ op' = Call("MemberStore.get_by_id", k, -1, <<>>)
        /\ UNCHANGED <<members, books, loans, now, err, cin, cbuf, proc>>

NextTail == TailIterAll \/ TailGetById

SpecTail == InitTail /\ [][NextTail]_vars

\* The record read back from what pack wrote for d.
MemberStored(d) == MemberStore_unpack(MemberStore_pack(d).bytes)

\* C12: of a file whose length is not a multiple of the record size, iter_all
\* yields the floor(length / record size) complete records and nothing for the
\* short final chunk, and get_by_id gives the first record holding the id with
\* its index counted from 0, or not-found when no complete record holds it.
C12_PartialTailIgnored ==
    /\ op.name = "MemberStore.iter_all"
         => /\ Len(cout) = Len(members) \div MEM_SIZE
            /\ cout = [i \in 1..Len(cin.recs) |-> MemberStored(cin.recs[i])]
    /\ op.name = "MemberStore.get_by_id"
         => LET holders == {i \in 1..Len(cin.recs) : cin.recs[i].member_id = op.key}
            IN  IF holders = {} THEN cout = NotFound
                ELSE /\ cout.found
                     /\ cout.idx + 1 \in holders
                     /\ \A i \in holders : cout.idx + 1 <= i
                     /\ cout.rec = MemberStored(cin.recs[cout.idx + 1])

\* get_by_id of the id that only the partial record holds has read past two
\* complete records and found nothing.
C12_Witness ==
    /\ op.name = "MemberStore.get_by_id" /\ op.key = Str_M2
    /\ Len(members) = 3 * MEM_SIZE - 1
    /\ ~cout.found

\* C13: pack of a record with an integer outside its field's range, the u64
\* fields included, raises nothing and stores the integer modulo 2^width.
C13_OutOfRangeWraps ==
    op.name = "pack"
      => /\ err = "ok"
         /\ cin.kind = "Member"
              => /\ cbuf[173] = cin.d.year % 256
                 /\ SubSeq(cbuf, 177, 184) = LEBytes(cin.d.created_at, 8)
         /\ cin.kind = "Book"
              => /\ SubSeq(cbuf, 125, 126) = LEBytes(cin.d.year % 65536, 2)
                 /\ SubSeq(cbuf, 147, 148) = LEBytes(cin.d.total_copies % 65536, 2)
                 /\ SubSeq(cbuf, 149, 150) = LEBytes(cin.d.available_copies % 65536, 2)
                 /\ SubSeq(cbuf, 151, 158) = LEBytes(cin.d.created_at, 8)
         /\ cin.kind = "Loan"
              => /\ SubSeq(cbuf, 37, 44) = LEBytes(cin.d.loan_date, 8)
                 /\ SubSeq(cbuf, 45, 52) = LEBytes(cin.d.due_date, 8)
                 /\ SubSeq(cbuf, 53, 60) = LEBytes(cin.d.return_date, 8)
                 /\ cbuf[61] = cin.d.status % 256

(***************************************************************************)
(* The string helpers alone: a str is packed into a field of size bytes,   *)
(* and the field is unpacked.                                              *)
(***************************************************************************)
MaxChars == 3
\* "A", "é" (2 bytes), "ก" (3 bytes), an emoji (4 bytes) and U+0000
StrChars == {65, 233, 3585, 128512, 0}
StrSizes == {1, 2, 3, 4, 12}

StrInputs ==
    UNION {[1..n -> StrChars] : n \in 0..MaxChars}

InitStr ==
    /\ cin \in {[s |-> s, size |-> n] : s \in StrInputs, n \in StrSizes}
    /\ members = <<>> /\ books = <<>> /\ loans = <<>>
    /\ now = Epoch0
    /\ op = Call("input", <<>>, -1, <<>>)
    /\ err = "ok"
    /\ cbuf = <<>> /\ cout = <<>>
    /\ proc = <<>>

StrPack ==
    /\ op.name = "input"
    /\ cbuf' = pack_str(cin.s, cin.size)
    /\ op' = Call("pack_str", <<>>, -1, <<>>)
    /\ UNCHANGED <<members, books, loans, now, err, cin, cout, proc>>

StrUnpack ==
    /\ op.name = "pack_str"
    /\ cout' = unpack_str(cbuf)
    /\ op' = Call("unpack_str", <<>>, -1, <<>>)
    /\ UNCHANGED <<members, books, loans, now, err, cin, cbuf, proc>>

NextStr == StrPack \/ StrUnpack

SpecStr == InitStr /\ [][NextStr]_vars

\* The longest prefix of s, of at most n characters, whose encoding fits size bytes.
RECURSIVE FittingPrefix(_, _, _)
FittingPrefix(s, n, size) ==
    IF Len(encode_utf8(SubSeq(s, 1, n))) <= size THEN SubSeq(s, 1, n)
    ELSE FittingPrefix(s, n - 1, size)

\* C14: for a string whose encoding is longer than the field, pack_str gives
\* the first size bytes of the encoding, and unpack_str of the field gives those
\* bytes up to the first zero byte decoded with what does not decode dropped:
\* the characters of the string, up to its first U+0000, that fit whole.
C14_TruncatesBytes ==
    Len(encode_utf8(cin.s)) > cin.size
      => /\ op.name \in {"pack_str", "unpack_str"}
              => /\ Len(cbuf) = cin.size
                 /\ cbuf = SubSeq(encode_utf8(cin.s), 1, cin.size)
         /\ op.name = "unpack_str"
              => /\ cout = decode_utf8_ignore(UpToNul(SubSeq(encode_utf8(cin.s), 1, cin.size)))
                 /\ cout = UpToNul(FittingPrefix(cin.s, Len(cin.s), cin.size))

\* A string of three characters has been cut inside its second character,
\* which is gone from what unpack_str gives.
C14_Witness ==
    /\ op.name = "unpack_str"
    /\ cin.s = <<65, 3585, 65>> /\ cin.size = 3
    /\ cout = <<65>>

(***************************************************************************)
(* The table layout: display widths, truncation, padding, render_table.    *)
(* A character is combining (width 0), wide (East Asian W or F, width 2)   *)
(* or anything else (width 1); the model's texts are made of one of each   *)
(* class, the space, and the narrow characters render_table draws with.    *)
(***************************************************************************)
Ch_A == 65
\* U+4E2D, East Asian width W
Ch_Wide == 20013
\* U+0301 combining acute accent
Ch_Comb == 769
\* U+2026 horizontal ellipsis, U+2502 and U+2500 box drawings: East Asian width A
Ch_Ellipsis == 8230
Ch_VBar == 9474
Ch_HBar == 9472
Ch_Space == 32
Ch_Newline == 10

\* unicodedata.combining(ch) != 0
combining(ch) == ch = Ch_Comb
\* unicodedata.east_asian_width(ch) in ("W", "F")
east_asian_wide(ch) == ch = Ch_Wide

char_width(ch) == IF combining(ch) THEN 0 ELSE IF east_asian_wide(ch) THEN 2 ELSE 1

RECURSIVE _disp_width(_)
_disp_width(text) ==
    IF text = <<>> THEN 0 ELSE char_width(Head(text)) + _disp_width(Tail(text))

\* Variant: the loop keeps no column for the ellipsis.
RECURSIVE truncate_loop_full(_, _, _, _, _)
truncate_loop_full(text, i, used, width, out) ==
    IF i > Len(text) THEN out
    ELSE LET cw == char_width(text[i])
         IN  IF used + cw > width THEN out
             ELSE truncate_loop_full(text, i + 1, used + cw, width, Append(out, text[i]))

\* The loop of _truncate_to_width from character i on, used columns taken by out.
RECURSIVE truncate_loop(_, _, _, _, _)
truncate_loop(text, i, used, width, out) ==
    IF i > Len(text) THEN out
    ELSE LET cw == char_width(text[i])
         IN  IF used + cw >= width THEN out
             ELSE IF used + cw >= width - 1 THEN Append(out, text[i])
             ELSE truncate_loop(text, i + 1, used + cw, width, Append(out, text[i]))

_truncate_to_width(text, width) ==
    IF _disp_width(text) <= width THEN text
    ELSE IF width <= 1 THEN (IF width = 1 THEN <<Ch_Ellipsis>> ELSE <<>>)
    ELSE truncate_loop(text, 1, 0, width, <<>>) \o <<Ch_Ellipsis>>

Spaces(n) == [i \in 1..n |-> Ch_Space]

\* Variant: the gap counts characters, not display columns.
_pad_chars(text, width, align) ==
    LET raw == _truncate_to_width(text, width)
        gap == width - Len(raw)
    IN  IF align = "right" THEN Spaces(gap) \o raw
        ELSE IF align = "center"
             THEN Spaces(gap \div 2) \o raw \o Spaces(gap - (gap \div 2))
        ELSE raw \o Spaces(gap)

_pad(text, width, align) ==
    LET raw == _truncate_to_width(text, width)
        gap == width - _disp_width(raw)
    IN  IF align = "right" THEN Spaces(gap) \o raw
        ELSE IF align = "center"
             THEN Spaces(gap \div 2) \o raw \o Spaces(gap - (gap \div 2))
        ELSE raw \o Spaces(gap)

Max(a, b) == IF a > b THEN a ELSE b

RECURSIVE Sum(_)
Sum(ws) == IF ws = <<>> THEN 0 ELSE Head(ws) + Sum(Tail(ws))

\* sep.join(parts)
RECURSIVE Join(_, _)
Join(sep, parts) ==
    IF parts = <<>> THEN <<>>
    ELSE IF Len(parts) = 1 THEN parts[1]
    ELSE parts[1] \o sep \o Join(sep, Tail(parts))

\* " │ ", the default sep
DefaultSep == <<Ch_Space, Ch_VBar, Ch_Space>>

\* The widest of header i and the cells the rows have in column i.
RECURSIVE column_width(_, _, _)
column_width(w, rows, i) ==
    IF rows = <<>> THEN w
    ELSE column_width(IF i <= Len(Head(rows)) THEN Max(w, _disp_width(Head(rows)[i])) ELSE w,
                      Tail(rows), i)

natural_widths(headers, rows) ==
    [i \in 1..Len(headers) |-> column_width(Max(0, _disp_width(headers[i])), rows, i)]

\* max_total or max(60, term_w - 2); no max_total is 0
table_limit(max_total, term_w) ==
    IF max_total # 0 THEN max_total ELSE Max(60, term_w - 2)

\* Variant: the columns taken in their own order, not the widest first.
columns_in_order(widths, left) == [i \in 1..Cardinality(left) |-> i]

\* Variant: no floor under a column.
min_col_none(widths) == [i \in 1..Len(widths) |-> 0]

min_col(widths) ==
    [i \in 1..Len(widths) |-> Max(6, IF widths[i] < 30 THEN widths[i] ELSE 30)]

\* sorted(enumerate(widths), key=width, reverse=True): widest first, equal
\* widths in column order.
RECURSIVE widest_first(_, _)
widest_first(widths, left) ==
    IF left = {} THEN <<>>
    ELSE LET idx == CHOOSE i \in left :
                        \A j \in left : \/ widths[i] > widths[j]
                                        \/ (widths[i] = widths[j] /\ i <= j)
         IN  <<idx>> \o widest_first(widths, left \ {idx})

RECURSIVE reduce_widths(_, _, _, _)
reduce_widths(widths, floors, pairs, need) ==
    IF pairs = <<>> THEN widths
    ELSE LET idx == Head(pairs)
             can_reduce == widths[idx] - floors[idx]
         IN  IF can_reduce <= 0 THEN reduce_widths(widths, floors, Tail(pairs), need)
             ELSE LET step == IF can_reduce < need THEN can_reduce ELSE need
                      ws == [widths EXCEPT ![idx] = @ - step]
                  IN  IF need - step <= 0 THEN ws
                      ELSE reduce_widths(ws, floors, Tail(pairs), need - step)

\* The column widths render_table draws with.
final_widths(headers, rows, max_total, term_w, sep) ==
    LET widths == natural_widths(headers, rows)
        cols == Len(headers)
        table_content_width == Sum(widths) + _disp_width(sep) * (cols - 1)
        limit == table_limit(max_total, term_w)
    IN  IF table_content_width > limit
        THEN reduce_widths(widths, min_col(widths), widest_first(widths, 1..cols),
                           table_content_width - limit)
        ELSE widths

hline(widths, sep_w) ==
    [i \in 1..(Sum(widths) + sep_w * (Len(widths) - 1)) |-> Ch_HBar]

align_of(aligns, i) == IF i <= Len(aligns) THEN aligns[i] ELSE "left"

\* The lines render_table joins: rule, header, rule, one line per row, rule.
table_lines(headers, rows, aligns, max_total, term_w, sep) ==
    LET widths == final_widths(headers, rows, max_total, term_w, sep)
        cols == Len(headers)
        top == hline(widths, _disp_width(sep))
        header_line == Join(sep, [i \in 1..cols |-> _pad(headers[i], widths[i], "center")])
        body_lines ==
            [k \in 1..Len(rows) |->
                Join(sep, [i \in 1..cols |->
                    _pad(IF i <= Len(rows[k]) THEN rows[k][i] ELSE <<>>,
                         widths[i], align_of(aligns, i))])]
    IN  <<top, header_line, top>> \o body_lines \o <<top>>

render_table(headers, rows, aligns, max_total, term_w, sep) ==
    Join(<<Ch_Newline>>, table_lines(headers, rows, aligns, max_total, term_w, sep))

(***************************************************************************)
(* _truncate_to_width alone.                                               *)
(***************************************************************************)
MaxTextLen == 4
MaxWidth == 5
TextChars == {Ch_A, Ch_Wide, Ch_Comb}
Texts == UNION {[1..n -> TextChars] : n \in 0..MaxTextLen}

InitTrunc ==
    /\ cin \in {[s |-> s, width |-> w] : s \in Texts, w \in 0..MaxWidth}
    /\ members = <<>> /\ books = <<>> /\ loans = <<>>
    /\ now = Epoch0
    /\ op = Call("input", <<>>, -1, <<>>)
    /\ err = "ok"
    /\ cbuf = <<>> /\ cout = <<>>
    /\ proc = <<>>

Truncate ==
    /\ op.name = "input"
    /\ cout' = _truncate_to_width(cin.s, cin.width)
    /\ op' = Call("_truncate_to_width", <<>>, -1, <<>>)
    /\ UNCHANGED <<members, books, loans, now, err, cin, cbuf, proc>>

NextTrunc == Truncate

SpecTrunc == InitTrunc /\ [][NextTrunc]_vars

\* C16: _truncate_to_width(s, width), width >= 0, is never wider than width on
\* display; it is s when s is no wider than width, and otherwise a prefix of s
\* followed by one ellipsis: the ellipsis alone for width 1, nothing for width 0.
C16_TruncateFits ==
    op.name = "_truncate_to_width"
      => /\ _disp_width(cout) <= cin.width
         /\ _disp_width(cin.s) <= cin.width => cout = cin.s
         /\ _disp_width(cin.s) > cin.width
              => /\ cin.width = 0 => cout = <<>>
                 /\ cin.width = 1 => cout = <<Ch_Ellipsis>>
                 /\ cin.width >= 2
                      => \E k \in 0..Len(cin.s) : cout = SubSeq(cin.s, 1, k) \o <<Ch_Ellipsis>>

\* A text has been cut in front of a wide character that the width left one
\* column for: the result is a column short of the width.
C16_Witness ==
    /\ op.name = "_truncate_to_width"
    /\ cin.s = <<Ch_A, Ch_Wide, Ch_Wide>> /\ cin.width = 3
    /\ cout = <<Ch_A, Ch_Ellipsis>>

(***************************************************************************)
(* render_table alone: a table is drawn within a budget.                   *)
(***************************************************************************)
MaxCols == 2
MaxRows == 1
Text_Wide4 == <<Ch_Wide, Ch_Wide, Ch_Wide, Ch_Wide>>
\* 40 columns wide: narrow, wide and combining characters in turn
Text_Mixed40 ==
    [i \in 1..40 |-> IF i % 3 = 1 THEN Ch_A ELSE IF i % 3 = 2 THEN Ch_Wide ELSE Ch_Comb]

\* 34 columns wide: 17 wide characters
Text_Wide34 == [i \in 1..17 |-> Ch_Wide]

HeaderTexts == {<<Ch_A>>, Text_Wide34}
CellTexts == {Text_Wide4, Text_Mixed40}

\* A row has a cell for every column, or lacks the last one.
TableRows(cols) == [1..cols -> CellTexts] \cup [1..(cols - 1) -> CellTexts]

TableInputs ==
    UNION {{[headers |-> h, rows |-> r] :
                h \in [1..cols -> HeaderTexts],
                r \in UNION {[1..n -> TableRows(cols)] : n \in 0..MaxRows}} :
           cols \in 1..MaxCols}

\* aligns: none given, or fewer than the columns, or one for each
AlignInputs == {<<>>, <<"right">>, <<"center", "right">>}

\* max_total (0: none given) and the terminal's columns
BudgetInputs ==
    {[max_total |-> 0, term_w |-> 80], [max_total |-> 0, term_w |-> 120],
     [max_total |-> 1, term_w |-> 80], [max_total |-> 70, term_w |-> 120],
     [max_total |-> 20, term_w |-> 80]}

InitTable ==
    /\ cin \in {[headers |-> t.headers, rows |-> t.rows, aligns |-> a,
                 max_total |-> b.max_total, term_w |-> b.term_w] :
                   t \in TableInputs, a \in AlignInputs, b \in BudgetInputs}
    /\ members = <<>> /\ books = <<>> /\ loans = <<>>
    /\ now = Epoch0
    /\ op = Call("input", <<>>, -1, <<>>)
    /\ err = "ok"
    /\ cbuf = <<>> /\ cout = <<>>
    /\ proc = <<>>

\* render_table returns the text; the widths it drew with are kept beside it.
RenderTable ==
    /\ op.name = "input"
    /\ cout' = [text |-> render_table(cin.headers, cin.rows, cin.aligns,
                                      cin.max_total, cin.term_w, DefaultSep),
                widths |-> final_widths(cin.headers, cin.rows, cin.max_total,
                                        cin.term_w, DefaultSep)]
    /\ op' = Call("render_table", <<>>, -1, <<>>)
    /\ UNCHANGED <<members, books, loans, now, err, cin, cbuf, proc>>

NextTable == RenderTable

SpecTable == InitTable /\ [][NextTable]_vars

NaturalOf(in) == natural_widths(in.headers, in.rows)

OverBudget(in) ==
    Sum(NaturalOf(in)) + _disp_width(DefaultSep) * (Len(in.headers) - 1)
        > table_limit(in.max_total, in.term_w)

ColumnFloor(w) == Max(6, IF w < 30 THEN w ELSE 30)

\* C15 as stated: when the natural content width exceeds the budget, every
\* column's final width is at least max(6, min(30, naturalWidth)).
C15_EveryColumnAtFloor ==
    (op.name = "render_table" /\ OverBudget(cin))
      => \A i \in 1..Len(cin.headers) : cout.widths[i] >= ColumnFloor(NaturalOf(cin)[i])

\* C15 (amended): when the natural content width exceeds the budget, no column
\* is made wider and none is shrunk below max(6, min(30, naturalWidth)): a
\* column whose natural width is below that floor keeps its natural width.
C15_NeverShrunkBelowFloor ==
    (op.name = "render_table" /\ OverBudget(cin))
      => \A i \in 1..Len(cin.headers) :
            LET w == NaturalOf(cin)[i]
            IN  /\ cout.widths[i] <= w
                /\ cout.widths[i] >= (IF w < ColumnFloor(w) THEN w ELSE ColumnFloor(w))
                /\ w < ColumnFloor(w) => cout.widths[i] = w

\* Over its budget, a column of natural width 1 stays 1 wide beside a column
\* shrunk from 34 to its floor of 30.
C15_Witness ==
    /\ op.name = "render_table" /\ OverBudget(cin)
    /\ Len(cin.headers) = 2
    /\ NaturalOf(cin) = <<1, 34>>
    /\ cout.widths = <<1, 30>>

\* text.split("\n"): the pieces between the newlines of text
SplitLines(text) ==
    LET nl == {i \in 1..Len(text) : text[i] = Ch_Newline}
        cut(k) == IF k = 0 THEN 0
                  ELSE IF k > Cardinality(nl) THEN Len(text) + 1
                  ELSE CHOOSE i \in nl : Cardinality({j \in nl : j < i}) = k - 1
    IN  [k \in 1..(Cardinality(nl) + 1) |-> SubSeq(text, cut(k - 1) + 1, cut(k) - 1)]

\* C17: the text render_table returns has three rules, the header line and one
\* line per row, and every one of them is as wide on display as the final
\* column widths and the separators between them add up to.
C17_LinesSameWidth ==
    op.name = "render_table"
      => LET lines == SplitLines(cout.text)
             total == Sum(cout.widths) + _disp_width(DefaultSep) * (Len(cin.headers) - 1)
         IN  /\ Len(lines) = 4 + Len(cin.rows)
             /\ \A k \in 1..Len(lines) : _disp_width(lines[k]) = total

\* A table of two columns over its budget has been drawn with a cell of narrow,
\* wide and combining characters cut from 40 columns to 30, right-aligned.
C17_Witness ==
    /\ op.name = "render_table" /\ OverBudget(cin)
    /\ cin.headers = <<<<Ch_A>>, <<Ch_A>>>>
    /\ cin.rows = <<<<Text_Wide4, Text_Mixed40>>>>
    /\ cin.aligns = <<"center", "right">>
    /\ cin.max_total = 20
    /\ cout.widths = <<8, 30>>

\* C18: loan_return of a loan in status 2 is not refused: it sets return_date
\* to the time of the call, sets the status anew from that time and due_date,
\* and adds one more to the available_copies of the loan's book.
C18_LateLoanReturnedAgain ==
    [][op'.name = "loan_return"
          => LET l == LoanStore_get_by_id(loans, op'.key)
             IN  (l.found /\ l.rec.status = 2)
                   => LET after == LoanStore_iter_all(loans')[l.idx + 1]
                          b == BookStore_get_by_id(books, l.rec.book_id)
                      IN  /\ err' # "Already returned"
                          /\ after.return_date = now
                          /\ after.status = ReturnStatus(now, l.rec.due_date)
                          /\ b.found
                               => BookStore_get_by_id(books', l.rec.book_id).rec.available_copies
                                     = b.rec.available_copies + 1]_vars

\* C19: loan_return of a loan in status 1, and loan_return of a loan id that no
\* loan holds, leave the loan file and the book file as they were.
C19_RefusedReturnChangesNothing ==
    [][op'.name = "loan_return"
          => LET l == LoanStore_get_by_id(loans, op'.key)
             IN  /\ ~l.found => (err' = "Loan not found" /\ loans' = loans /\ books' = books)
                 /\ (l.found /\ l.rec.status = 1)
                      => (err' = "Already returned" /\ loans' = loans /\ books' = books)]_vars

\* loan_return has been called on a loan already in status 1 and has refused it.
C19_Witness ==
    /\ op.name = "loan_return" /\ err = "Already returned"
    /\ LoanStore_get_by_id(loans, op.key).found
    /\ LoanStore_get_by_id(loans, op.key).rec.status = 1

(***************************************************************************)
(* A handler cut short: the process ends after the first of the two writes *)
(* of loan_borrow or loan_return and before the second.                    *)
(***************************************************************************)
\* Variant: the loan appended first, the book not yet written.
loan_borrow_crashed_loan_first(m, b, l, t, mid, bid, days_v) ==
    LET mres == MemberStore_get_by_id(m, mid)
        bres == BookStore_get_by_id(b, bid)
    IN  IF ~mres.found \/ ~mres.rec.active \/ ~bres.found THEN Outcome(b, l, "none")
        ELSE IF bres.rec.available_copies <= 0 THEN Outcome(b, l, "none")
        ELSE LET a == LoanStore_append(l, Loan(LoanIdAt(t), mid, bid, t,
                                               t + days_v * 86400, 0, 0))
             IN  Outcome(b, a.file, IF a.err = "ok" THEN "crash" ELSE "none")

\* loan_borrow up to and including bk.update_at(bidx, book): "crash" when the
\* call gets that far, "none" when it ends before.
loan_borrow_crashed(m, b, l, t, mid, bid, days_v) ==
    LET mres == MemberStore_get_by_id(m, mid)
        bres == BookStore_get_by_id(b, bid)
    IN  IF ~mres.found \/ ~mres.rec.active \/ ~bres.found THEN Outcome(b, l, "none")
        ELSE IF bres.rec.available_copies <= 0 THEN Outcome(b, l, "none")
        ELSE LET u == BookStore_update_at(b, bres.idx,
                                          [bres.rec EXCEPT !.available_copies = @ - 1])
             IN  Outcome(u.file, l, IF u.err = "ok" THEN "crash" ELSE "none")

\* loan_return up to and including ln.update_at(idx, rec).
loan_return_crashed(b, l, t, lid) ==
    LET res == LoanStore_get_by_id(l, lid)
    IN  IF ~res.found THEN Outcome(b, l, "none")
        ELSE IF AlreadyReturned(res.rec) THEN Outcome(b, l, "none")
        ELSE LET rec == [res.rec EXCEPT !.return_date = t,
                                        !.status = ReturnStatus(t, res.rec.due_date)]
                 u == LoanStore_update_at(l, res.idx, rec)
             IN  Outcome(b, u.file, IF u.err = "ok" THEN "crash" ELSE "none")

LoanBorrowCrash ==
    \E a \in BorrowArgs :
        LET r == loan_borrow_crashed(members, books, loans, now, a[1], a[2], a[3])
        IN  /\ r.err = "crash"
            /\ NumRecords(r.loans, LOAN_SIZE) <= MaxLoans
            /\ books' = r.books
            /\ loans' = r.loans
            /\ op' = Call("loan_borrow.crash", a[1], -1, [book_id |-> a[2], days |-> a[3]])
            /\ err' = r.err
            /\ UNCHANGED <<members, now, cin, cbuf, cout, proc>>

LoanReturnCrash ==
    \E lid \in LibLoanIds :
        LET r == loan_return_crashed(books, loans, now, lid)
        IN  /\ r.err = "crash"
            /\ books' = r.books
            /\ loans' = r.loans
            /\ op' = Call("loan_return.crash", lid, -1, <<>>)
            /\ err' = r.err
            /\ UNCHANGED <<members, now, cin, cbuf, cout, proc>>

NextCrash == NextCirc \/ LoanBorrowCrash \/ LoanReturnCrash

SpecCrash == InitLib /\ [][NextCrash]_vars

\* The loans of book bid in status 0.
BorrowedOf(l, bid) ==
    {i \in 1..NumRecords(l, LOAN_SIZE) :
        LoanStore_iter_all(l)[i].book_id = bid /\ LoanStore_iter_all(l)[i].status = 0}

\* C20: loan_borrow writes the book before the loan and loan_return the loan
\* before the book, so a borrow cut between its writes leaves the book with one
\* copy less and no loan for it, and a return cut between its writes leaves the
\* loan closed and the book without the copy.
C20_CrashBetweenWrites ==
    [][/\ op'.name = "loan_borrow.crash"
            => LET b == BookStore_get_by_id(books, op'.rec.book_id)
               IN  /\ loans' = loans
                   /\ BookStore_get_by_id(books', op'.rec.book_id).rec.available_copies
                         = b.rec.available_copies - 1
                   /\ BorrowedOf(loans', op'.rec.book_id) = BorrowedOf(loans, op'.rec.book_id)
       /\ op'.name = "loan_return.crash"
            => LET l == LoanStore_get_by_id(loans, op'.key)
                   after == LoanStore_iter_all(loans')[l.idx + 1]
               IN  /\ books' = books
                   /\ after.status \in {1, 2} /\ after.return_date = now
                   /\ l.rec.status = 0
                        => BorrowedOf(loans', l.rec.book_id)
                              = BorrowedOf(loans, l.rec.book_id) \ {l.idx + 1}]_vars

\* A borrow was cut between its writes: the only copy of the book is gone and
\* no loan was written.
C20_Witness ==
    /\ op.name = "loan_borrow.crash"
    /\ loans = <<>>
    /\ BookStore_get_by_id(books, op.rec.book_id).rec.available_copies = 0
    /\ BookStore_get_by_id(books, op.rec.book_id).rec.total_copies = 1

(***************************************************************************)
(* Two processes on the same files, no locking.  Every store method opens  *)
(* the file, does its reads or its write and closes it, so the calls of a  *)
(* handler are the steps that interleave: loan_borrow is its two lookups,  *)
(* then bk.update_at, then ln.append; delete_hard is the reading of the    *)
(* records, then the rewrite.  members.dat is not written here.            *)
(***************************************************************************)
Procs == {1, 2}
\* Each process runs at most MaxCalls handlers, one after the other.
MaxCalls == 2

\* The files as member_add M1 and book_add B1, B2, B3 (one copy each) leave them.
RaceMembers == MemberStore_append(<<>>, Member(Str_M1, Str_A, TRUE)).file
RaceBooks ==
    BookStore_append(
        BookStore_append(
            BookStore_append(<<>>, Book(Str_B1, 2001, 1, 1)).file,
            Book(Str_B2, 2001, 1, 1)).file,
        Book(Str_B3, 2001, 1, 1)).file

\* loan_borrow up to its last check: the book and the index it goes on with.
Checked(e, book, bidx) == [err |-> e, book |-> book, bidx |-> bidx]

loan_borrow_check(m, b, mid, bid) ==
    LET mres == MemberStore_get_by_id(m, mid)
    IN  IF ~mres.found \/ ~mres.rec.active
        THEN Checked("Member not found or inactive", <<>>, -1)
        ELSE LET bres == BookStore_get_by_id(b, bid)
             IN  IF ~bres.found THEN Checked("Book not found", <<>>, -1)
                 ELSE IF bres.rec.available_copies <= 0
                      THEN Checked("No available copies", <<>>, -1)
                 ELSE Checked("ok", bres.rec, bres.idx)

\* Variant: the book looked up again at the time of the write.
loan_borrow_write_reread(b, bidx, book) ==
    LET bres == BookStore_get_by_id(b, book.book_id)
    IN  IF ~bres.found THEN Done(b)
        ELSE BookStore_update_at(b, bres.idx, [bres.rec EXCEPT !.available_copies = @ - 1])

\* book["available_copies"] -= 1; bk.update_at(bidx, book), on the book and the
\* index of the lookup
loan_borrow_write(b, bidx, book) ==
    BookStore_update_at(b, bidx, [book EXCEPT !.available_copies = @ - 1])

loan_borrow_append(l, t, mid, bid, days_v) ==
    LoanStore_append(l, Loan(LoanIdAt(t), mid, bid, t, t + days_v * 86400, 0, 0))

\* records = [r for r in self.iter_all() if r["book_id"] != book_id]
delete_hard_read(f, book_id) ==
    SelectSeq(BookStore_iter_all(f), LAMBDA r : r.book_id # book_id)

RaceCalls ==
    {[name |-> "loan_borrow", mid |-> Str_M1, bid |-> Str_B2],
     [name |-> "book_delete", mid |-> <<>>, bid |-> Str_B1]}

Locals(pc, call, left, book, bidx, records, e) ==
    [pc |-> pc, name |-> call.name, mid |-> call.mid, bid |-> call.bid, left |-> left,
     book |-> book, bidx |-> bidx, records |-> records, err |-> e]

NoCall == [name |-> "none", mid |-> <<>>, bid |-> <<>>]

InitRace ==
    /\ members = RaceMembers /\ books = RaceBooks /\ loans = <<>>
    /\ now = Epoch0
    /\ op = Call("start", <<>>, -1, <<>>)
    /\ err = "ok"
    /\ cin = <<>> /\ cbuf = <<>> /\ cout = <<>>
    /\ proc = [p \in Procs |-> Locals("done", NoCall, MaxCalls, <<>>, -1, <<>>, "ok")]

\* loan_borrow, from the prompts to the last check
RaceBorrowCheck(p) ==
    \E c \in {c \in RaceCalls : c.name = "loan_borrow"} :
        LET r == loan_borrow_check(members, books, c.mid, c.bid)
        IN  /\ proc[p].pc = "done" /\ proc[p].left > 0
            /\ proc' = [proc EXCEPT ![p] =
                          Locals(IF r.err = "ok" THEN "update" ELSE "done", c,
                                 proc[p].left - 1, r.book, r.bidx, <<>>, r.err)]
            /\ op' = Call("loan_borrow.check", c.bid, r.bidx, [proc |-> p])
            /\ err' = r.err
            /\ UNCHANGED <<members, books, loans, now, cin, cbuf, cout>>

\* loan_borrow: the book written back
RaceBorrowUpdate(p) ==
    LET r == loan_borrow_write(books, proc[p].bidx, proc[p].book)
    IN  /\ proc[p].pc = "update"
        /\ books' = r.file
        /\ proc' = [proc EXCEPT ![p].pc = IF r.err = "ok" THEN "append" ELSE "done",
                                ![p].err = r.err]
        /\ op' = Call("loan_borrow.update_at", proc[p].bid, proc[p].bidx, [proc |-> p])
        /\ err' = r.err
        /\ UNCHANGED <<members, loans, now, cin, cbuf, cout>>

\* loan_borrow: the loan appended
RaceBorrowAppend(p) ==
    LET r == loan_borrow_append(loans, now, proc[p].mid, proc[p].bid, 14)
    IN  /\ proc[p].pc = "append"
        /\ loans' = r.file
        /\ proc' = [proc EXCEPT ![p].pc = "done", ![p].err = r.err]
        /\ op' = Call("loan_borrow.append", proc[p].bid, -1, [proc |-> p])
        /\ err' = r.err
        /\ UNCHANGED <<members, books, now, cin, cbuf, cout>>

\* delete_hard: the records read
RaceDeleteRead(p) ==
    \E c \in {c \in RaceCalls : c.name = "book_delete"} :
        /\ proc[p].pc = "done" /\ proc[p].left > 0
        /\ proc' = [proc EXCEPT ![p] =
                      Locals("rewrite", c, proc[p].left - 1, <<>>, -1,
                             delete_hard_read(books, c.bid), "ok")]
        /\ op' = Call("delete_hard.read", c.bid, -1, [proc |-> p])
        /\ err' = "ok"
        /\ UNCHANGED <<members, books, loans, now, cin, cbuf, cout>>

\* delete_hard: the file rewritten from the records read
RaceDeleteWrite(p) ==
    LET r == BookStore_write_all(<<>>, proc[p].records)
    IN  /\ proc[p].pc = "rewrite"
        /\ books' = r.file
        /\ proc' = [proc EXCEPT ![p].pc = "done", ![p].err = r.err]
        /\ op' = Call("delete_hard.write", proc[p].bid, -1, [proc |-> p])
        /\ err' = r.err
        /\ UNCHANGED <<members, loans, now, cin, cbuf, cout>>

NextRace ==
    \E p \in Procs :
        \/ RaceBorrowCheck(p) \/ RaceBorrowUpdate(p) \/ RaceBorrowAppend(p)
        \/ RaceDeleteRead(p) \/ RaceDeleteWrite(p)

SpecRace == InitRace /\ [][NextRace]_vars

\* The loans of book bid in status 0, as a count.
LoansOut(l, bid) == Cardinality(BorrowedOf(l, bid))

\* Both processes have been through loan_borrow of the same book, each having
\* read it with one copy available at the same index, and both have finished.
BothBorrowed(p, q) ==
    /\ proc[p].name = "loan_borrow" /\ proc[q].name = "loan_borrow"
    /\ proc[p].bid = proc[q].bid
    /\ proc[p].pc = "done" /\ proc[q].pc = "done"
    /\ proc[p].err = "ok" /\ proc[q].err = "ok"
    /\ proc[p].book.available_copies = 1 /\ proc[q].book = proc[p].book
    /\ proc[p].bidx = proc[q].bidx

\* loan_borrow writes at an index that now holds another book's record.
StaleIndex(p) ==
    /\ proc[p].bidx < NumRecords(books, BOOK_SIZE)
    /\ BookStore_iter_all(books)[proc[p].bidx + 1].book_id # proc[p].bid

\* C21: without locking, two loan_borrow calls that both read the same book
\* with one copy available both get through the check and both append a loan,
\* while the book ends one copy lower, not two; and the update_at of a
\* loan_borrow whose index was read before another process's delete_hard of an
\* earlier book replaces the record of a different book, which is then gone
\* from the file.
C21_RacesLoseUpdates ==
    /\ [](\A p, q \in Procs :
            (p # q /\ BothBorrowed(p, q))
              => /\ LoansOut(loans, proc[p].bid) >= 2
                 /\ LET b == BookStore_get_by_id(books, proc[p].bid)
                    IN  (b.found /\ b.idx = proc[p].bidx) => b.rec.available_copies = 0)
    /\ [][\A p \in Procs :
            (op'.name = "loan_borrow.update_at" /\ op'.rec.proc = p /\ StaleIndex(p))
              => /\ Len(books') = Len(books)
                 /\ BookStore_iter_all(books')[proc[p].bidx + 1].book_id = proc[p].bid
                 /\ BookStore_iter_all(books)[proc[p].bidx + 1].book_id \notin BookIdsIn(books')
                 /\ OthersUnchanged(books, books', BOOK_SIZE, proc[p].bidx)]_vars

\* Both losses in one run: B3 is gone though nobody deleted it, its place taken
\* by a second record of B2; and both processes have since borrowed B2 on
\* reading one copy available, which left B2 at no copy and three loans out.
C21_Witness ==
    /\ BothBorrowed(1, 2)
    /\ proc[1].bid = Str_B2
    /\ BookIdsIn(books) = {Str_B2} /\ NumRecords(books, BOOK_SIZE) = 2
    /\ BookStore_get_by_id(books, Str_B2).rec.available_copies = 0
    /\ BookStore_get_by_id(books, Str_B2).rec.total_copies = 1
    /\ LoansOut(loans, Str_B2) = 3

\* Every complete record of f is at the same index in g, byte for byte.
AllInPlace(f, g, size) ==
    \A j \in 0..(NumRecords(f, size) - 1) : Chunk(g, size, j) = Chunk(f, size, j)

\* The positions (from 1) of the records of a Book file holding id k.
BookPositions(f, k) ==
    {i \in 1..NumRecords(f, BOOK_SIZE) : BookStore_iter_all(f)[i].book_id = k}

\* C22: append, update_at at an index below the record count and soft_delete
\* leave every other record of the file at its index with its contents;
\* delete_hard(k) of the one record holding k leaves the records before it at
\* their indices and moves every record after it down by one.
C22_IndexStableButForDeleteHard ==
    [][/\ op'.name = "MemberStore.append" => AllInPlace(members, members', MEM_SIZE)
       /\ op'.name = "BookStore.append" => AllInPlace(books, books', BOOK_SIZE)
       /\ op'.name = "LoanStore.append" => AllInPlace(loans, loans', LOAN_SIZE)
       /\ (op'.name = "MemberStore.update_at" /\ op'.index < NumRecords(members, MEM_SIZE))
            => OthersUnchanged(members, members', MEM_SIZE, op'.index)
       /\ (op'.name = "BookStore.update_at" /\ op'.index < NumRecords(books, BOOK_SIZE))
            => OthersUnchanged(books, books', BOOK_SIZE, op'.index)
       /\ (op'.name = "LoanStore.update_at" /\ op'.index < NumRecords(loans, LOAN_SIZE))
            => OthersUnchanged(loans, loans', LOAN_SIZE, op'.index)
       /\ op'.name = "MemberStore.soft_delete"
            => OthersUnchanged(members, members', MEM_SIZE,
                               MemberStore_get_by_id(members, op'.key).idx)
       /\ (op'.name = "BookStore.delete_hard"
             /\ Cardinality(BookPositions(books, op'.key)) = 1)
            => LET d == CHOOSE i \in BookPositions(books, op'.key) : TRUE
               IN  \A i \in 1..NumRecords(books, BOOK_SIZE) :
                      /\ i < d => /\ i <= NumRecords(books', BOOK_SIZE)
                                  /\ BookStore_iter_all(books')[i] = BookStore_iter_all(books)[i]
                      /\ i > d => /\ i - 1 <= NumRecords(books', BOOK_SIZE)
                                  /\ BookStore_iter_all(books')[i - 1]
                                        = BookStore_iter_all(books)[i]]_vars

\* The records of empty strings and zero numbers.
ZeroMember ==
    [member_id |-> <<>>, first_name |-> <<>>, last_name |-> <<>>, email |-> <<>>,
     phone |-> <<>>, major |-> <<>>, year |-> 0, active |-> FALSE, created_at |-> 0]
ZeroBook ==
    [book_id |-> <<>>, title |-> <<>>, author |-> <<>>, category |-> <<>>, year |-> 0,
     isbn |-> <<>>, total_copies |-> 0, available_copies |-> 0, created_at |-> 0]
ZeroLoan == Loan(<<>>, <<>>, <<>>, 0, 0, 0, 0)

\* update_at(index, r) on f, of n records, gave g: index + 1 records, bytes at
\* index, the records below n as they were, zero bytes between n and index.
GrownTo(f, g, size, index, bytes) ==
    LET n == NumRecords(f, size)
    IN  /\ Len(g) = (index + 1) * size
        /\ Chunk(g, size, index) = bytes
        /\ \A j \in 0..(n - 1) : Chunk(g, size, j) = Chunk(f, size, j)
        /\ \A j \in n..(index - 1) : Chunk(g, size, j) = Zeros(size)

\* C23: update_at(index, r) at an index at or past the record count is carried
\* out: the file grows to index + 1 records with r at index, the records below
\* the old count are unchanged, and every position between the old count and
\* index is all zero bytes and decodes to empty strings and zero numbers.
C23_UpdatePastEndLeavesZeroGap ==
    [][/\ (op'.name = "MemberStore.update_at" /\ op'.index >= NumRecords(members, MEM_SIZE))
            => /\ err' = "ok"
               /\ GrownTo(members, members', MEM_SIZE, op'.index,
                          MemberStore_pack(op'.rec).bytes)
               /\ \A j \in NumRecords(members, MEM_SIZE)..(op'.index - 1) :
                     MemberStore_iter_all(members')[j + 1] = ZeroMember
       /\ (op'.name = "BookStore.update_at" /\ op'.index >= NumRecords(books, BOOK_SIZE))
            => /\ err' = "ok"
               /\ GrownTo(books, books', BOOK_SIZE, op'.index, BookStore_pack(op'.rec).bytes)
               /\ \A j \in NumRecords(books, BOOK_SIZE)..(op'.index - 1) :
                     BookStore_iter_all(books')[j + 1] = ZeroBook
       /\ (op'.name = "LoanStore.update_at" /\ op'.index >= NumRecords(loans, LOAN_SIZE))
            => /\ err' = "ok"
               /\ GrownTo(loans, loans', LOAN_SIZE, op'.index, LoanStore_pack(op'.rec).bytes)
               /\ \A j \in NumRecords(loans, LOAN_SIZE)..(op'.index - 1) :
                     LoanStore_iter_all(loans')[j + 1] = ZeroLoan]_vars

\* table_content_width and limit of render_table, and what the columns can give
ContentWidth(widths) == Sum(widths) + _disp_width(DefaultSep) * (Len(widths) - 1)
Deficit(in) == ContentWidth(NaturalOf(in)) - table_limit(in.max_total, in.term_w)
Reducible(w) == Max(0, w - ColumnFloor(w))
TotalReducible(in) == Sum([i \in 1..Len(in.headers) |-> Reducible(NaturalOf(in)[i])])

\* Column i comes before column j in the order of the shrinking: it is wider,
\* or as wide and to the left.
ShrunkBefore(ws, i, j) == ws[i] > ws[j] \/ (ws[i] = ws[j] /\ i < j)

\* C24: over budget, the columns are shrunk widest first, a column giving up
\* what it has above its floor before the next one is touched; when the
\* columns can give as much as the deficit the final content width is the
\* budget exactly, and when they cannot every column that could shrink ends at
\* its floor; the table is drawn in both cases.
C24_ShrinkWidestFirst ==
    (op.name = "render_table" /\ OverBudget(cin))
      => LET ws == NaturalOf(cin)
             cols == Len(cin.headers)
         IN  /\ \A i, j \in 1..cols :
                   (ShrunkBefore(ws, i, j) /\ cout.widths[j] < ws[j])
                     => cout.widths[i] = ws[i] - Reducible(ws[i])
             /\ TotalReducible(cin) >= Deficit(cin)
                  => ContentWidth(cout.widths) = table_limit(cin.max_total, cin.term_w)
             /\ TotalReducible(cin) < Deficit(cin)
                  => \A i \in 1..cols : cout.widths[i] = ws[i] - Reducible(ws[i])
             /\ Len(SplitLines(cout.text)) = Len(cin.rows) + 4

\* Two columns of 34 and 40 over a budget of 70: the second, the wider, gave
\* the 7 columns that were too many and the first was not touched.
C24_Witness ==
    /\ op.name = "render_table" /\ OverBudget(cin)
    /\ NaturalOf(cin) = <<34, 40>>
    /\ cin.max_total = 70
    /\ cout.widths = <<34, 33>>

(***************************************************************************)
(* Appends and hard deletes only: every file content is one that appends   *)
(* produced, or what a delete_hard made of it.                             *)
(***************************************************************************)
NextAppendDelete == MemberAppend \/ BookAppend \/ BookDeleteHard

SpecAppendDelete == Init /\ [][NextAppendDelete]_vars

\* C25: delete_hard(k) on a Book file built by appends (books of year 0
\* included) either ends normally and leaves exactly the records whose id is
\* not k, in order, or fails and leaves the file as it was.
C25_DeleteHardAllOrNothing ==
    [][op'.name = "BookStore.delete_hard"
          => \/ /\ err' = "ok"
                /\ BookList(books') = BooksWithout(BookList(books), op'.key)
             \/ /\ err' # "ok"
                /\ books' = books]_vars

(***************************************************************************)
(* The codecs, and the decoded record packed again: what get_by_id         *)
(* followed by update_at of the record it returned does to the bytes.      *)
(***************************************************************************)
CodecRepack ==
    /\ op.name = "unpack"
    /\ LET p == PackOf([kind |-> cin.kind, d |-> cout])
       IN  cout' = [rec |-> cout, bytes |-> p.bytes] /\ err' = p.err
    /\ op' = Call("repack", <<>>, -1, <<>>)
    /\ UNCHANGED <<members, books, loans, now, cin, cbuf, proc>>

NextRepack == CodecPack \/ CodecUnpack \/ CodecRepack

SpecRepack == InitCodec /\ [][NextRepack]_vars

\* C26: for each record kind and every byte string b that pack produced,
\* pack(unpack(b)) does not raise and gives b again (a Book stored with year 0
\* included).
C26_RepackGivesSameBytes ==
    op.name = "repack" => (err = "ok" /\ cout.bytes = cbuf)

(***************************************************************************)
(* Borrowing and returning with room for one loan more in loans.dat, so    *)
(* that a book returned can be borrowed again.                             *)
(***************************************************************************)
LoanBorrowAgain ==
    \E a \in BorrowArgs :
        LET r == loan_borrow(members, books, loans, now, a[1], a[2], a[3])
        IN  /\ NumRecords(r.loans, LOAN_SIZE) <= MaxLoans + 1
            /\ books' = r.books
            /\ loans' = r.loans
            /\ op' = Call("loan_borrow", a[1], -1, [book_id |-> a[2], days |-> a[3]])
            /\ err' = r.err
            /\ UNCHANGED <<members, now, cin, cbuf, cout, proc>>

NextAgain == MemberAdd \/ BookAdd \/ LoanBorrowAgain \/ LoanReturn \/ Tick

SpecAgain == InitLib /\ [][NextAgain]_vars

\* C27: in every reachable state the loans of loans.dat have pairwise distinct
\* ids, two borrows within the same second included, so get_by_id of a loan's
\* id returns that loan at its own index.
C27_LoanIdsDistinct ==
    /\ \A i, j \in 1..NumRecords(loans, LOAN_SIZE) :
          i # j => LoanStore_iter_all(loans)[i].loan_id # LoanStore_iter_all(loans)[j].loan_id
    /\ \A i \in 1..NumRecords(loans, LOAN_SIZE) :
          LoanStore_get_by_id(loans, LoanStore_iter_all(loans)[i].loan_id)
              = Found(LoanStore_iter_all(loans)[i], i - 1)

(***************************************************************************)
(* A library in use: two members and three books are on file when the      *)
(* handlers start, so that the records the handlers look up lie at         *)
(* indices other than 0 and move when a book before them is deleted.       *)
(***************************************************************************)
Str_M3 == <<77, 51>>
Str_B4 == <<66, 52>>

\* members.dat after member_add of M2 and of M1
ShelfMembers ==
    MemberStore_append(
        MemberStore_append(<<>>, Member(Str_M2, Str_A, TRUE)).file,
        Member(Str_M1, Str_A, TRUE)).file

\* books.dat after book_add of B1, of B2 and, with a blank Year, of B3
ShelfBooks ==
    BookStore_append(
        BookStore_append(
            BookStore_append(<<>>, Book(Str_B1, 2001, 1, 1)).file,
            Book(Str_B2, 2001, 1, 1)).file,
        Book(Str_B3, 0, 1, 1)).file

\* The prompts of loan_borrow: M3 and B4 are on no file.
ShelfBorrowArgs ==
    {<<Str_M1, b, 0>> : b \in {Str_B1, Str_B2, Str_B3, Str_B4}}
        \cup {<<Str_M1, Str_B2, 14>>, <<Str_M3, Str_B2, 14>>}

InitShelf ==
    /\ members = ShelfMembers /\ books = ShelfBooks /\ loans = <<>>
    /\ now = Epoch0
    /\ op = Call("start", <<>>, -1, <<>>)
    /\ err = "ok"
    /\ cin = <<>> /\ cbuf = <<>> /\ cout = <<>>
    /\ proc = <<>>

ShelfBorrow ==
    \E a \in ShelfBorrowArgs :
        LET r == loan_borrow(members, books, loans, now, a[1], a[2], a[3])
        IN  /\ NumRecords(r.loans, LOAN_SIZE) <= MaxLoans + 1
            /\ books' = r.books
            /\ loans' = r.loans
            /\ op' = Call("loan_borrow", a[1], -1, [book_id |-> a[2], days |-> a[3]])
            /\ err' = r.err
            /\ UNCHANGED <<members, now, cin, cbuf, cout, proc>>

NextShelf ==
    \/ MemberDelete \/ BookDelete
    \/ ShelfBorrow \/ LoanReturn \/ Tick

SpecShelf == InitShelf /\ [][NextShelf]_vars

\* g has the records of f, each index holding the id it held.
SameMemberIds(f, g) ==
    /\ Len(g) = Len(f)
    /\ \A i \in 1..NumRecords(f, MEM_SIZE) :
          MemberStore_iter_all(g)[i].member_id = MemberStore_iter_all(f)[i].member_id
SameBookIds(f, g) ==
    /\ Len(g) = Len(f)
    /\ \A i \in 1..NumRecords(f, BOOK_SIZE) :
          BookStore_iter_all(g)[i].book_id = BookStore_iter_all(f)[i].book_id
SameLoanIds(f, g) ==
    /\ Len(g) = Len(f)
    /\ \A i \in 1..NumRecords(f, LOAN_SIZE) :
          LoanStore_iter_all(g)[i].loan_id = LoanStore_iter_all(f)[i].loan_id

\* C28: in one process, the update_at calls of loan_borrow, loan_return and
\* soft_delete write at the index their lookup gave, which is below the record
\* count and holds the id of the record written: the file keeps its length,
\* every index keeps its id, and no record but the one looked up changes.
C28_UpdatesHitOwnRecord ==
    [][/\ op'.name = "loan_borrow"
            => /\ SameBookIds(books, books')
               /\ OthersUnchanged(books, books', BOOK_SIZE,
                                  BookStore_get_by_id(books, op'.rec.book_id).idx)
       /\ op'.name = "loan_return"
            => LET l == LoanStore_get_by_id(loans, op'.key)
               IN  /\ SameLoanIds(loans, loans')
                   /\ OthersUnchanged(loans, loans', LOAN_SIZE, l.idx)
                   /\ SameBookIds(books, books')
                   /\ l.found
                        => OthersUnchanged(books, books', BOOK_SIZE,
                                           BookStore_get_by_id(books, l.rec.book_id).idx)
                   /\ ~l.found => books' = books
       /\ op'.name = "member_delete"
            => /\ SameMemberIds(members, members')
               /\ OthersUnchanged(members, members', MEM_SIZE,
                                  MemberStore_get_by_id(members, op'.key).idx)]_vars

\* loan_return has closed the second loan of loans.dat and given the copy back
\* to its book, the second record of books.dat.
C28_Witness ==
    /\ op.name = "loan_return" /\ err = "ok"
    /\ LoanStore_get_by_id(loans, op.key).idx = 1
    /\ LoanStore_get_by_id(loans, op.key).rec.status \in {1, 2}
    /\ LET b == BookStore_get_by_id(books, LoanStore_get_by_id(loans, op.key).rec.book_id)
       IN  b.found /\ b.idx = 1 /\ b.rec.available_copies = 1
    /\ NumRecords(books, BOOK_SIZE) = 3

\* C29: loan_return of a loan in status 0 whose book is no longer in books.dat
\* still sets the loan's return_date and its status, 1 or 2 by the due date,
\* and leaves books.dat as it was; book_delete leaves loans.dat as it was, the
\* loans of the deleted book included.
C29_ReturnAfterBookDeleted ==
    [][/\ op'.name = "loan_return"
            => LET l == LoanStore_get_by_id(loans, op'.key)
               IN  (l.found /\ l.rec.status = 0 /\ l.rec.book_id \notin BookIdsIn(books))
                     => /\ err' = "ok"
                        /\ books' = books
                        /\ LoanStore_iter_all(loans')[l.idx + 1]
                              = [l.rec EXCEPT !.return_date = now,
                                              !.status = IF now > l.rec.due_date THEN 2 ELSE 1]
                        /\ OthersUnchanged(loans, loans', LOAN_SIZE, l.idx)
       /\ op'.name = "book_delete" => loans' = loans]_vars

\* A late return has gone through on a loan whose book had been deleted: the
\* loan is closed in status 2 and books.dat is still empty.
C29_Witness ==
    /\ op.name = "loan_return" /\ err = "ok"
    /\ books = <<>>
    /\ LoanStore_get_by_id(loans, op.key).found
    /\ LoanStore_get_by_id(loans, op.key).rec.status = 2
    /\ LoanStore_get_by_id(loans, op.key).rec.return_date = now
    /\ LoanStore_get_by_id(loans, op.key).rec.book_id = Str_B1

\* C30: loan_borrow for a member id that is on no record, for a member whose
\* record is inactive, or for a book id that is on no record, is refused and
\* changes neither books.dat nor loans.dat; so a loan is appended only for a
\* member whose record is active at that time.
C30_BorrowRefused ==
    [][/\ op'.name = "loan_borrow"
            => LET m == MemberStore_get_by_id(members, op'.key)
                   b == BookStore_get_by_id(books, op'.rec.book_id)
               IN  /\ (~m.found \/ ~m.rec.active)
                        => (err' = "Member not found or inactive"
                              /\ books' = books /\ loans' = loans)
                   /\ (m.found /\ m.rec.active /\ ~b.found)
                        => (err' = "Book not found" /\ books' = books /\ loans' = loans)
       /\ NumRecords(loans', LOAN_SIZE) > NumRecords(loans, LOAN_SIZE)
            => LET new == LoanStore_iter_all(loans')[NumRecords(loans', LOAN_SIZE)]
                   m == MemberStore_get_by_id(members, new.member_id)
               IN  m.found /\ m.rec.active]_vars

\* M1, who has a loan on file, was deactivated, and the next loan_borrow for M1
\* has been refused.
C30_Witness ==
    /\ op.name = "loan_borrow" /\ op.key = Str_M1
    /\ err = "Member not found or inactive"
    /\ MemberStore_get_by_id(members, Str_M1).found
    /\ ~MemberStore_get_by_id(members, Str_M1).rec.active
    /\ NumRecords(loans, LOAN_SIZE) = 1
    /\ LoanStore_iter_all(loans)[1].member_id = Str_M1

====
